---- MODULE Spec2Model ----
(***************************************************************************)
(* Model of the news ingestion and summarization pipeline of               *)
(* stock-news-ai-summarizer: the rate-limited generative client            *)
(* (AIProcessor) and the news collector (NewsCollector).                   *)
(***************************************************************************)
EXTENDS Integers, Sequences, FiniteSets, TLC

VARIABLES
    now,              \* Date.now(), in milliseconds
    requestCount,     \* AIProcessor.requestCount
    lastRequestTime,  \* AIProcessor.lastRequestTime
    pc,               \* position of each caller of the AIProcessor
    op,               \* operation each caller runs: "select" or "summary"
    wakeAt,           \* deadline of the setTimeout a suspended caller waits on
    winStart,         \* lastRequestTime as read by the caller when it entered rateLimit
    starts,           \* start times of the generative-service calls of the last 60 s, oldest first
    selPc,            \* position of the selectTopArticles call under study
    selImpl,          \* "real" (AIProcessor) or "mock" (MockAIProcessor)
    selArg,           \* the list as it was passed to selectTopArticles
    selList,          \* the passed array object as it is now (sort works in place)
    selResult,        \* the list selectTopArticles returned
    selGenCalls,      \* generative calls made by the selectTopArticles call
    selReply,         \* how its generative call ended: a reply text, or an error
    genPc,            \* position of the generateSummary call under study
    genTicker,        \* its ticker argument
    genArticles,      \* its articles argument
    genHistory,       \* its historicalData argument
    genResult,        \* what it returned, or that it raised
    genReply,         \* the reply text it received from the service, if any
    genGenCalls,      \* generative calls made by the generateSummary call
    polygonApiKey,    \* NewsCollector.polygonApiKey is set
    cache,            \* NewsCollector.cache: ticker to { data, timestamp }
    colPc,            \* position of the collectNews call under study
    colTicker,        \* its ticker argument
    adapter,          \* the promises of its three adapter calls
    allNews,          \* the merged list of the call
    colResult,        \* the list it returned, and when the list was captured
    colCalls,         \* calls of collectNews made so far
    rdPc,             \* position of the removeDuplicates call under study
    rdArticles,       \* its articles argument
    rdUnique,         \* the list it returned
    stImpl,           \* storage in use: "file" (DataStorage) or "memory" (ProductionDataStorage)
    summaries,        \* the stored list of each ticker: its file, or memoryStorage.summaries
    stPc,             \* position of each caller of storeSummary
    stTicker,         \* the ticker argument of each caller
    stData,           \* the summaryData argument of each caller
    stRead,           \* the local list of each caller, as read from the file
    stLog,            \* the 7 summaries stored last for each ticker, newest first
    stCalls,          \* calls of storeSummary made so far
    scPc,             \* position of the scrapeTradingView call under study: the stage it is at
    scDoc,            \* the document its request was answered with
    scTicker,         \* its ticker argument
    scNews,           \* its local list news
    scRan,            \* the strategies that have examined the document
    scYield,          \* the articles each strategy has added
    scResult,         \* the promise of the call
    isProduction,     \* ProductionDataStorage.isProduction
    initialized,      \* the flag of api/index.js, line 12
    initRuns,         \* how many times initializeStorage has run init and the auto-processing
    memTickers,       \* memoryStorage.tickers
    memSummaries,     \* memoryStorage.summaries: the list of each ticker, [] when it has none
    req,              \* the requests the serverless handler is serving
    run,              \* the background runs of processTickerNewsAsync and processAISummaryAsync
    nextBatch,        \* the loops over the ticker list that have started runs so far
    hRequests,        \* requests received so far
    aiStarted,        \* tickers for which a request has stored a preliminary summary and started AI processing
    tickersFile,      \* the content of tickers.json of the file-based DataStorage
    tkPc,             \* position of each caller of addTicker or removeTicker
    tkOp,             \* the method the caller runs
    tkTicker,         \* its ticker argument
    tkRead,           \* its local list tickers, as read from the file
    tkAdded,          \* tickers of the addTicker calls that have returned
    tkRemoved,        \* tickers removeTicker has been called with
    tkCalls           \* calls of addTicker and removeTicker made so far

aiVars == <<now, requestCount, lastRequestTime, pc, op, wakeAt, winStart, starts>>

selVars == <<selPc, selImpl, selArg, selList, selResult, selGenCalls, selReply>>

genVars == <<genPc, genTicker, genArticles, genHistory, genResult, genReply, genGenCalls>>

colVars == <<polygonApiKey, cache, colPc, colTicker, adapter, allNews, colResult, colCalls>>

rdVars == <<rdPc, rdArticles, rdUnique>>

stVars == <<stImpl, summaries, stPc, stTicker, stData, stRead, stLog, stCalls>>

scVars == <<scPc, scDoc, scTicker, scNews, scRan, scYield, scResult>>

hVars ==
    <<isProduction, initialized, initRuns, memTickers, memSummaries, req, run, nextBatch,
      hRequests, aiStarted>>

tkVars == <<tickersFile, tkPc, tkOp, tkTicker, tkRead, tkAdded, tkRemoved, tkCalls>>

nonAIVars == <<selVars, genVars, colVars, rdVars, stVars, scVars, hVars, tkVars>>

outsideSel == <<genVars, colVars, rdVars, stVars, scVars, hVars, tkVars>>

outsideGen == <<selVars, colVars, rdVars, stVars, scVars, hVars, tkVars>>

outsideCollect ==
    <<requestCount, lastRequestTime, pc, op, wakeAt, winStart, starts, selVars, genVars, rdVars, stVars, scVars,
      hVars, tkVars>>

outsideDedup == <<aiVars, selVars, genVars, colVars, stVars, scVars, hVars, tkVars>>

outsideStore == <<aiVars, selVars, genVars, colVars, rdVars, scVars, hVars, tkVars>>

outsideScrape == <<aiVars, selVars, genVars, colVars, rdVars, stVars, hVars, tkVars>>

outsideHandler == <<aiVars, selVars, genVars, colVars, rdVars, stVars, scVars, tkVars>>

outsideTickers == <<aiVars, selVars, genVars, colVars, rdVars, stVars, scVars, hVars>>

vars == <<aiVars, selVars, genVars, colVars, rdVars, stVars, scVars, hVars, tkVars>>

----------------------------------------------------------------------------
(* Bounds of the model *)

NumCallers == 2        \* concurrent callers of one AIProcessor
TimeStep == 30000      \* granularity of the clock, ms
MaxTicks == 2          \* the clock stops after this many steps
MaxStarts == 17        \* generative calls a caller may add to one 60 s interval

Callers == 1..NumCallers

LastInstant == MaxTicks * TimeStep

----------------------------------------------------------------------------
(* AIProcessor: constructor and rateLimit *)

maxRequestsPerMinute == 15

RateWindowMs == 60000

\* rateLimit, line 266-267: the caller has to wait
RateLimitMustWait(t, cnt, last) ==
    (t - last < RateWindowMs) /\ (cnt >= maxRequestsPerMinute)

\* the operands of the subtraction swapped: the timer is due at once
RateLimitWaitTimeSwapped(t, last) == (t - last) - RateWindowMs

\* rateLimit, line 268
RateLimitWaitTime(t, last) == RateWindowMs - (t - last)

\* rateLimit, lines 266-278, the path without a wait: the counter after the call
RateLimitCount(t, cnt, last) ==
    IF t - last < RateWindowMs THEN cnt + 1 ELSE 1

\* rateLimit, lines 266-278, the path without a wait: the window start after the call
RateLimitWindow(t, last) ==
    IF t - last < RateWindowMs THEN last ELSE t

\* rateLimit, lines 271-272 and 278: the counter after the wait
RateLimitCountAfterWait(cnt) == 0 + 1

InitAI ==
    /\ now = 0
    /\ requestCount = 0
    /\ lastRequestTime = 0
    /\ pc = [c \in Callers |-> "idle"]
    /\ op = [c \in Callers |-> "select"]
    /\ wakeAt = [c \in Callers |-> 0]
    /\ winStart = [c \in Callers |-> 0]
    /\ starts = <<>>

\* no selectTopArticles call is under study
InitSel ==
    /\ selPc = "idle"
    /\ selImpl = "real"
    /\ selArg = <<>>
    /\ selList = <<>>
    /\ selResult = <<>>
    /\ selGenCalls = 0
    /\ selReply = [kind |-> "none", text |-> <<>>]

\* No continuation of a resolved promise is pending: the microtask queue is empty
NoMicrotask == \A c \in Callers : pc[c] # "admitted"

\* Date.now() advances
Tick ==
    /\ NoMicrotask
    /\ now + TimeStep <= LastInstant
    /\ now' = now + TimeStep
    /\ starts' = SelectSeq(starts, LAMBDA t : now' - t < RateWindowMs)
    /\ UNCHANGED <<requestCount, lastRequestTime, pc, op, wakeAt, winStart>>
    /\ UNCHANGED nonAIVars

\* selectTopArticles with more than 7 articles, or generateSummary with a
\* non-empty list, up to the end of the synchronous part of rateLimit
EnterRateLimit(c, o) ==
    /\ pc[c] = "idle"
    /\ NoMicrotask
    /\ Len(starts) < MaxStarts
    /\ op' = [op EXCEPT ![c] = o]
    /\ IF RateLimitMustWait(now, requestCount, lastRequestTime)
       THEN /\ now + RateLimitWaitTime(now, lastRequestTime) <= LastInstant
            /\ wakeAt' = [wakeAt EXCEPT ![c] = now + RateLimitWaitTime(now, lastRequestTime)]
            /\ winStart' = [winStart EXCEPT ![c] = lastRequestTime]
            /\ pc' = [pc EXCEPT ![c] = "waiting"]
            /\ UNCHANGED <<requestCount, lastRequestTime>>
       ELSE /\ requestCount' = RateLimitCount(now, requestCount, lastRequestTime)
            /\ lastRequestTime' = RateLimitWindow(now, lastRequestTime)
            /\ pc' = [pc EXCEPT ![c] = "admitted"]
            /\ UNCHANGED <<wakeAt, winStart>>
    /\ UNCHANGED <<now, starts>>
    /\ UNCHANGED nonAIVars

\* the timer of a suspended caller fires: rateLimit lines 271-272, 278
WakeRateLimit(c) ==
    /\ pc[c] = "waiting"
    /\ NoMicrotask
    /\ now >= wakeAt[c]
    /\ requestCount' = RateLimitCountAfterWait(requestCount)
    /\ lastRequestTime' = now
    /\ pc' = [pc EXCEPT ![c] = "admitted"]
    /\ wakeAt' = [wakeAt EXCEPT ![c] = 0]
    /\ winStart' = [winStart EXCEPT ![c] = 0]
    /\ UNCHANGED <<now, op, starts>>
    /\ UNCHANGED nonAIVars

\* generateSummary line 428: the summarizer counts its request a second time
SummaryExtraCount(o, cnt) == IF o = "summary" THEN cnt + 1 ELSE cnt

\* the continuation after "await this.rateLimit()": the prompt is built and
\* model.generateContent is called (lines 293-317, 386-432); the caller then
\* awaits the reply, which no longer touches the rate limiter
StartGenerativeCall(c) ==
    /\ pc[c] = "admitted"
    /\ requestCount' = SummaryExtraCount(op[c], requestCount)
    /\ starts' = Append(starts, now)
    /\ pc' = [pc EXCEPT ![c] = "idle"]
    /\ op' = [op EXCEPT ![c] = "select"]
    /\ UNCHANGED <<now, lastRequestTime, wakeAt, winStart>>
    /\ UNCHANGED nonAIVars

----------------------------------------------------------------------------
(* Articles *)

\* the sources an article can carry; "Other" stands for any source the
\* credibility table of the selector does not know
Sources == {"Polygon", "Finviz", "TradingView", "Other"}

DigitChars == <<"0", "1", "2", "3", "4", "5", "6", "7", "8", "9">>

\* the decimal digits of a number below 100, as characters
NumChars(n) == IF n < 10 THEN <<DigitChars[n + 1]>>
               ELSE <<DigitChars[(n \div 10) + 1], DigitChars[(n % 10) + 1]>>

\* the source of the i-th article of the k-th input pattern
PatternSource(i, k) ==
    CASE k = 0 -> "TradingView"
      [] k = 1 -> <<"TradingView", "Finviz", "Polygon">>[(i % 3) + 1]
      [] k = 2 -> IF i % 4 = 0 THEN "Polygon" ELSE IF i % 4 = 1 THEN "Other" ELSE "Finviz"
      [] OTHER -> IF i > 9 THEN "Polygon" ELSE IF i % 2 = 0 THEN "TradingView" ELSE "Finviz"

\* an article as the adapters build it (createNewsItem, scrapeFinviz, fetchPolygonNews)
Article(t, c, src, at) == [title |-> t, content |-> c, source |-> src, publishedAt |-> at]

\* the i-th candidate of the k-th input pattern: "News <i>", older with growing i
Candidate(i, k) ==
    Article(<<"N", "e", "w", "s", " ">> \o NumChars(i), <<>>, PatternSource(i, k), 100 - (i % 5))

MaxCandidates == 12    \* longest list handed to the selector
NumPatterns == 4       \* source patterns of the candidate lists

CandidateLists ==
    {[i \in 1..n |-> Candidate(i, k)] : n \in 0..MaxCandidates, k \in 0..(NumPatterns - 1)}

----------------------------------------------------------------------------
(* AIProcessor.selectTopArticles *)

\* The reply text of the generative service, as a sequence of lexical tokens:
\* LB "[", RB "]", CM ",", SP (white space), W (a run of other characters)
\* and Num(v), a maximal run of digits with value v (NumLz(v) when it is
\* written with a leading zero).
Tok(kind) == [k |-> kind, n |-> 0, lz |-> FALSE]

LB == Tok("[")

RB == Tok("]")

CM == Tok(",")

SP == Tok("sp")

W == Tok("w")

Num(v) == [k |-> "num", n |-> v, lz |-> FALSE]

NumLz(v) == [k |-> "num", n |-> v, lz |-> TRUE]

IsNum(tok) == tok.k = "num"

\* the text "[a, b, c]" of a list of numbers
RECURSIVE NumListBody(_)
NumListBody(ns) ==
    IF Len(ns) = 0 THEN <<>>
    ELSE IF Len(ns) = 1 THEN <<Num(ns[1])>>
    ELSE <<Num(ns[1]), CM, SP>> \o NumListBody(Tail(ns))

ArrayText(ns) == <<LB>> \o NumListBody(ns) \o <<RB>>

MaxReplyLen == 8       \* longest index array in a reply
MaxSelCalls == 2       \* selectTopArticles calls that reach the service within 60 s
MaxGenCalls == 2       \* generateSummary calls that reach the service within 60 s

SelectorReplies ==
    {ArrayText([i \in 1..len |-> off + (i - 1) * step]) :
        len \in 1..MaxReplyLen, off \in {0, 1, 6}, step \in {0, 1, 5}}
    \cup {<<W, SP>> \o ArrayText(<<2, 9, 4>>) \o <<SP, W>>,
          <<LB, W, RB, SP>> \o ArrayText(<<3, 1>>),
          <<LB, Num(1), CM, CM, Num(2), RB>>,
          <<LB, Num(1), SP, Num(2), RB>>,
          <<LB, NumLz(7), RB>>,
          <<LB, CM, RB>>,
          <<LB, SP, RB>>,
          <<LB, RB>>,
          <<W, SP, Num(4), SP, W, SP, Num(11), W, Num(2)>>,
          <<W, SP, W>>,
          <<>>}

\* text.match(/\[[\d\s,]+\]/), line 330: the end of the match that starts at
\* token i, 0 when there is none
RECURSIVE ArrayMatchEnd(_, _, _)
ArrayMatchEnd(text, i, j) ==
    IF j > Len(text) THEN 0
    ELSE IF text[j] = RB THEN (IF j > i + 1 THEN j ELSE 0)
    ELSE IF IsNum(text[j]) \/ text[j] \in {CM, SP} THEN ArrayMatchEnd(text, i, j + 1)
    ELSE 0

\* the first position where the pattern matches, 0 when there is none
RECURSIVE ArrayMatchStart(_, _)
ArrayMatchStart(text, i) ==
    IF i > Len(text) THEN 0
    ELSE IF text[i] = LB /\ ArrayMatchEnd(text, i, i + 1) > 0 THEN i
    ELSE ArrayMatchStart(text, i + 1)

\* the tokens between the brackets of the match, white space dropped
ArrayMatchBody(text) ==
    LET i == ArrayMatchStart(text, 1)
        j == ArrayMatchEnd(text, i, i + 1)
    IN SelectSeq(SubSeq(text, i + 1, j - 1), LAMBDA tok : tok # SP)

\* JSON.parse accepts the matched array text: numbers without leading zero
\* separated by single commas (white space alone is the empty array)
RECURSIVE JsonArrayOk(_)
JsonArrayOk(body) ==
    IF Len(body) = 0 THEN TRUE
    ELSE /\ IsNum(body[1])
         /\ ~body[1].lz
         /\ \/ Len(body) = 1
            \/ /\ Len(body) >= 3
               /\ body[2] = CM
               /\ JsonArrayOk(SubSeq(body, 3, Len(body)))

\* the values of the number tokens of a text, in order: text.match(/\d+/g).map(Number)
NumbersOf(text) ==
    LET nums == SelectSeq(text, IsNum)
    IN [i \in 1..Len(nums) |-> nums[i].n]

\* articles.slice(0, k)
Slice(list, k) == SubSeq(list, 1, IF Len(list) < k THEN Len(list) ELSE k)

MaxSelected == 7

FallbackSelected == 6

SelectorBypassLen == 7

\* an index-picker that forgets the cap
PickSelectedUncapped(articles, indices) ==
    LET valid == SelectSeq(indices, LAMBDA num : num - 1 >= 0 /\ num - 1 < Len(articles))
    IN [i \in 1..Len(valid) |-> articles[valid[i]]]

\* lines 343-348: 1-based numbers to articles, out-of-range dropped, at most 7
PickSelected(articles, indices) ==
    LET valid == SelectSeq(indices, LAMBDA num : num - 1 >= 0 /\ num - 1 < Len(articles))
        capped == Slice(valid, MaxSelected)
    IN [i \in 1..Len(capped) |-> articles[capped[i]]]

\* lines 326-354: the list returned for a reply text
SelectFromReply(articles, text) ==
    IF ArrayMatchStart(text, 1) > 0 /\ ~JsonArrayOk(ArrayMatchBody(text))
    THEN Slice(articles, FallbackSelected)
    ELSE LET selectedIndices ==
                 IF ArrayMatchStart(text, 1) > 0 THEN NumbersOf(ArrayMatchBody(text))
                 ELSE NumbersOf(text)
             selectedArticles == PickSelected(articles, selectedIndices)
         IN IF Len(selectedArticles) > 0 THEN selectedArticles
            ELSE Slice(articles, FallbackSelected)

\* line 362
sourceOrder(src) ==
    CASE src = "Polygon" -> 3
      [] src = "Finviz" -> 2
      [] src = "TradingView" -> 1
      [] OTHER -> 0

\* a fallback that leaves the candidates in their order
SortBySourceKeepsOrder(articles) == articles

\* lines 360-364: Array.prototype.sort is stable and sorts the array in place
SortBySource(articles) ==
    SelectSeq(articles, LAMBDA a : sourceOrder(a.source) = 3)
    \o SelectSeq(articles, LAMBDA a : sourceOrder(a.source) = 2)
    \o SelectSeq(articles, LAMBDA a : sourceOrder(a.source) = 1)
    \o SelectSeq(articles, LAMBDA a : sourceOrder(a.source) = 0)

\* lines 282-288: the list is returned as it is, without a generative call
SelectorBypasses(articles) == Len(articles) <= SelectorBypassLen

\* mockAIProcessor.js lines 37-45: stable insertion of article a into a list
\* sorted by source tier, then by recency
RECURSIVE MockInsert(_, _)
MockInsert(sorted, a) ==
    IF Len(sorted) = 0 THEN <<a>>
    ELSE LET b == sorted[Len(sorted)]
             bFirst == \/ sourceOrder(b.source) > sourceOrder(a.source)
                       \/ /\ sourceOrder(b.source) = sourceOrder(a.source)
                          /\ b.publishedAt >= a.publishedAt
         IN IF bFirst THEN Append(sorted, a)
            ELSE Append(MockInsert(SubSeq(sorted, 1, Len(sorted) - 1), a), b)

RECURSIVE MockSort(_)
MockSort(articles) ==
    IF Len(articles) = 0 THEN <<>>
    ELSE MockInsert(MockSort(SubSeq(articles, 1, Len(articles) - 1)), articles[Len(articles)])

\* the rate-limiter states a call can find: none, 14 or 15 requests counted
InitCallRL ==
    /\ now = 0
    /\ lastRequestTime = 0
    /\ requestCount \in {0, maxRequestsPerMinute - 1, maxRequestsPerMinute}
    /\ pc = [c \in Callers |-> "idle"]
    /\ op = [c \in Callers |-> "select"]
    /\ wakeAt = [c \in Callers |-> 0]
    /\ winStart = [c \in Callers |-> 0]
    /\ starts = <<>>

\* Date.now() advances while a call is under way
CallTick ==
    /\ selPc # "admitted"
    /\ genPc # "admitted"
    /\ now + TimeStep <= LastInstant
    /\ now' = now + TimeStep
    /\ starts' = SelectSeq(starts, LAMBDA t : now' - t < RateWindowMs)
    /\ UNCHANGED <<requestCount, lastRequestTime, pc, op, wakeAt, winStart>>
    /\ UNCHANGED nonAIVars

\* selectTopArticles(articles), lines 281-291, up to its first suspension
SelectCall(articles) ==
    /\ selPc = "idle"
    /\ selImpl' = "real"
    /\ selArg' = articles
    /\ selList' = articles
    /\ selGenCalls' = 0
    /\ selReply' = [kind |-> "none", text |-> <<>>]
    /\ IF SelectorBypasses(articles)
       THEN /\ selResult' = articles
            /\ selPc' = "done"
            /\ UNCHANGED <<requestCount, lastRequestTime, wakeAt>>
       ELSE /\ Len(starts) < MaxSelCalls
            /\ selResult' = <<>>
            /\ IF RateLimitMustWait(now, requestCount, lastRequestTime)
               THEN /\ now + RateLimitWaitTime(now, lastRequestTime) <= LastInstant
                    /\ wakeAt' = [wakeAt EXCEPT ![1] = now + RateLimitWaitTime(now, lastRequestTime)]
                    /\ selPc' = "waiting"
                    /\ UNCHANGED <<requestCount, lastRequestTime>>
               ELSE /\ requestCount' = RateLimitCount(now, requestCount, lastRequestTime)
                    /\ lastRequestTime' = RateLimitWindow(now, lastRequestTime)
                    /\ selPc' = "admitted"
                    /\ UNCHANGED wakeAt
    /\ UNCHANGED <<now, pc, op, winStart, starts>>
    /\ UNCHANGED outsideSel

\* the timer of rateLimit fires, lines 270-278
SelectWake ==
    /\ selPc = "waiting"
    /\ now >= wakeAt[1]
    /\ requestCount' = RateLimitCountAfterWait(requestCount)
    /\ lastRequestTime' = now
    /\ wakeAt' = [wakeAt EXCEPT ![1] = 0]
    /\ selPc' = "admitted"
    /\ UNCHANGED <<now, pc, op, winStart, starts>>
    /\ UNCHANGED <<selImpl, selArg, selList, selResult, selGenCalls, selReply>>
    /\ UNCHANGED outsideSel

\* lines 293-317: the prompt is built and model.generateContent is called
SelectStart ==
    /\ selPc = "admitted"
    /\ selGenCalls' = selGenCalls + 1
    /\ starts' = Append(starts, now)
    /\ selPc' = "calling"
    /\ UNCHANGED <<now, requestCount, lastRequestTime, pc, op, wakeAt, winStart>>
    /\ UNCHANGED <<selImpl, selArg, selList, selResult, selReply>>
    /\ UNCHANGED outsideSel

\* the service replies with a text: lines 318-354
SelectReply(text) ==
    /\ selPc = "calling"
    /\ selResult' = SelectFromReply(selList, text)
    /\ selReply' = [kind |-> "text", text |-> text]
    /\ selPc' = "done"
    /\ UNCHANGED aiVars
    /\ UNCHANGED <<selImpl, selArg, selList, selGenCalls>>
    /\ UNCHANGED outsideSel

\* the call to the service raises, lines 356-368: the array that was passed
\* is sorted in place and its first six elements are returned
SelectFailSorts ==
    /\ selPc = "calling"
    /\ selList' = SortBySource(selList)
    /\ selResult' = Slice(SortBySource(selList), FallbackSelected)
    /\ selReply' = [kind |-> "error", text |-> <<>>]
    /\ selPc' = "done"
    /\ UNCHANGED aiVars
    /\ UNCHANGED <<selImpl, selArg, selGenCalls>>

\* the same, for an array nothing else refers to
SelectFail ==
    /\ SelectFailSorts
    /\ UNCHANGED outsideSel

\* MockAIProcessor.selectTopArticles, mockAIProcessor.js lines 27-50
MockSelectCall(articles) ==
    /\ selPc = "idle"
    /\ selImpl' = "mock"
    /\ selArg' = articles
    /\ selGenCalls' = 0
    /\ selReply' = [kind |-> "none", text |-> <<>>]
    /\ IF SelectorBypasses(articles)
       THEN /\ selResult' = articles
            /\ selList' = articles
       ELSE /\ selList' = MockSort(articles)
            /\ selResult' = Slice(MockSort(articles), FallbackSelected)
    /\ selPc' = "done"
    /\ UNCHANGED aiVars
    /\ UNCHANGED outsideSel

\* the caller has taken the result
SelectReturn ==
    /\ selPc = "done"
    /\ selPc' = "idle"
    /\ selArg' = <<>>
    /\ selList' = <<>>
    /\ selResult' = <<>>
    /\ selGenCalls' = 0
    /\ selReply' = [kind |-> "none", text |-> <<>>]
    /\ UNCHANGED selImpl
    /\ UNCHANGED aiVars
    /\ UNCHANGED outsideSel

----------------------------------------------------------------------------
(* AIProcessor.generateSummary: values, inputs and the reply text *)

Tickers == {"AAPL", "TSLA"}

\* A JavaScript value held in a field of a summary object.  A string is a
\* sequence of words; the word BSQ is an escaped quote (\") inside a string
\* literal of the reply.
VStr(words) == [t |-> "string", w |-> words, items |-> <<>>, n |-> 0]

VArr(items) == [t |-> "array", w |-> <<>>, items |-> items, n |-> 0]

VNum(n) == [t |-> "number", w |-> <<>>, items |-> <<>>, n |-> n]

VTrue == [t |-> "boolean", w |-> <<>>, items |-> <<>>, n |-> 1]

BSQ == "\\\""

\* an object without fields
EmptyObject == [f \in {} |-> VTrue]

\* an element of the articles argument: an article, null, or an object
\* without title and content
Elem(kind, article) == [e |-> kind, a |-> article]

OkElems(n) == [i \in 1..n |-> Elem("ok", Candidate(i, 1))]

NullElem == Elem("null", Candidate(0, 0))

UntitledElem == Elem("untitled", Candidate(0, 0))

\* the articles argument: absent (null or undefined), an array, or a value
\* that is no array but has a non-zero length (an array-like object)
ArgAbsent == [kind |-> "absent", items |-> <<>>]

ArgList(items) == [kind |-> "list", items |-> items]

ArgNonList == [kind |-> "nonlist", items |-> <<>>]

\* articles.slice(0, 25), line 386
MaxAnalyzed == 25

MaxGenArticles == 4    \* longest of the short lists handed to generateSummary

ArticlesArgs ==
    {ArgList(OkElems(n)) : n \in 0..MaxGenArticles}
    \cup {ArgAbsent, ArgNonList,
          ArgList(<<NullElem>>),
          ArgList(OkElems(3) \o <<NullElem>>),
          ArgList(<<UntitledElem>> \o OkElems(1)),
          \* one article more than the prompt takes
          ArgList(OkElems(MaxAnalyzed + 1))}

HistoryArgs == {ArgAbsent, ArgList(OkElems(2)), ArgList(<<NullElem>>)}

\* The reply text as a sequence of lexical tokens: OB "{", CB "}", GCM ",",
\* FenceOpen "```json", FenceClose "```", Key(name) for "name": , StrT(words)
\* for a string literal (StrCut: the text ends inside it), ArrT(items) for an
\* array of strings (ArrCut: the text ends inside it, ArrBad: brackets closed
\* around text that is no JSON), Prose(words) and Bullet(words) for free text.
GT(kind) == [k |-> kind, name |-> "", w |-> <<>>, items |-> <<>>, closed |-> TRUE, ok |-> TRUE]

OB == GT("{")

CB == GT("}")

GCM == GT(",")

FenceOpen == GT("fence_open")

FenceClose == GT("fence_close")

Key(name) == [GT("key") EXCEPT !.name = name]

StrT(words) == [GT("str") EXCEPT !.w = words]

StrCut(words) == [GT("str") EXCEPT !.w = words, !.closed = FALSE]

ArrT(items) == [GT("arr") EXCEPT !.items = items]

ArrCut(items) == [GT("arr") EXCEPT !.items = items, !.closed = FALSE]

ArrBad(items) == [GT("arr") EXCEPT !.items = items, !.ok = FALSE]

Prose(words) == [GT("prose") EXCEPT !.w = words]

Bullet(words) == [GT("bullet") EXCEPT !.w = words]

\* the fields the prompt asks for, lines 411-420
PromptFields ==
    <<"summary", "keyPoints", "sentiment", "sentimentReasoning", "whatChangedToday",
      "marketImplications", "marketImpact", "confidence">>

SummaryWords == <<"X", "is", "up", "on", "strong", "earnings">>

\* the value a well-behaved reply gives a field
ReplyValue(name) ==
    CASE name = "summary" -> StrT(SummaryWords)
      [] name = "keyPoints" -> ArrT(<<<<"Earnings", "beat">>, <<"Guidance", "raised">>>>)
      [] name = "sentiment" -> StrT(<<"positive">>)
      [] name = "sentimentReasoning" -> StrT(<<"Beat", "estimates">>)
      [] name = "whatChangedToday" -> StrT(<<"Guidance", "was", "raised">>)
      [] name = "marketImplications" -> StrT(<<"Shares", "may", "rise">>)
      [] name = "marketImpact" -> StrT(<<"high">>)
      [] OTHER -> StrT(<<"medium">>)

\* the members "k1": v1, "k2": v2, ... of the first n prompt fields
RECURSIVE Members(_)
Members(n) ==
    IF n = 0 THEN <<>>
    ELSE IF n = 1 THEN <<Key(PromptFields[1]), ReplyValue(PromptFields[1])>>
    ELSE Members(n - 1) \o <<GCM, Key(PromptFields[n]), ReplyValue(PromptFields[n])>>

GenReplies ==
    {<<OB>> \o Members(n) \o <<CB>> : n \in 0..Len(PromptFields)}
    \cup {<<OB>> \o Members(n) : n \in 1..Len(PromptFields)}
    \cup {<<FenceOpen, OB>> \o Members(8) \o <<CB, FenceClose>>,
          <<Prose(<<"Here", "you", "go">>), OB>> \o Members(8) \o <<CB>>,
          \* the truncated reply {"summary":"X is up on strong earnings","sentiment":"positive"
          <<OB, Key("summary"), StrT(SummaryWords), GCM, Key("sentiment"), StrT(<<"positive">>)>>,
          <<OB, Key("summary"), StrCut(<<"X", "is", "up">>)>>,
          <<OB, Key("summary"), StrT(<<"He", "said", BSQ, "buy", BSQ, "today">>), GCM,
            Key("sentiment"), StrT(<<"negative">>)>>,
          <<OB, Key("summary"), StrT(SummaryWords), GCM, Key("keyPoints"),
            ArrCut(<<<<"Earnings", "beat">>>>)>>,
          <<OB, Key("summary"), StrT(SummaryWords), GCM, Key("keyPoints"),
            ArrBad(<<<<"Earnings", "beat">>>>), GCM>>,
          <<OB, Key("summary"), StrT(SummaryWords), GCM, Key("keyPoints"),
            StrT(<<"Earnings", "beat">>), CB>>,
          <<OB, Key("sentiment"), StrT(<<"positive">>), GCM, Key("marketImpact"), StrT(<<"low">>)>>,
          <<Prose(<<"The", "outlook", "is", "weak">>), Bullet(<<"Sales", "fall">>),
            Bullet(<<"Costs", "drop">>)>>,
          <<Prose(<<"Sorry">>)>>,
          <<ArrT(<<>>)>>,
          <<>>}

----------------------------------------------------------------------------
(* AIProcessor.generateSummary: parsing and recovery *)

Min(S) == CHOOSE x \in S : \A y \in S : x <= y

\* text.replace(pattern, ''): the text without the first token equal to tok
RemoveFirst(text, tok) ==
    LET at == {i \in 1..Len(text) : text[i] = tok}
    IN IF at = {} THEN text
       ELSE SubSeq(text, 1, Min(at) - 1) \o SubSeq(text, Min(at) + 1, Len(text))

\* line 444
StripFences(text) == RemoveFirst(RemoveFirst(text, FenceOpen), FenceClose)

\* a token JSON.parse accepts as a value
ValueOk(tok) == tok.k \in {"str", "arr"} /\ tok.closed /\ tok.ok

RECURSIVE MembersOk(_)
MembersOk(m) ==
    \/ Len(m) = 0
    \/ /\ Len(m) >= 2
       /\ m[1].k = "key"
       /\ ValueOk(m[2])
       /\ \/ Len(m) = 2
          \/ /\ Len(m) > 3
             /\ m[3] = GCM
             /\ MembersOk(SubSeq(m, 4, Len(m)))

\* JSON.parse(text) does not throw, line 452
JsonOk(text) ==
    \/ /\ Len(text) >= 2
       /\ text[1] = OB
       /\ text[Len(text)] = CB
       /\ MembersOk(SubSeq(text, 2, Len(text) - 1))
    \/ /\ Len(text) = 1
       /\ text[1].k = "arr"
       /\ ValueOk(text[1])

\* a string literal as JSON.parse reads it: \" becomes "
Unescape(words) == [i \in 1..Len(words) |-> IF words[i] = BSQ THEN "\"" ELSE words[i]]

JsonValue(tok) == IF tok.k = "str" THEN VStr(Unescape(tok.w)) ELSE VArr(tok.items)

\* the fields of the parsed members; a later duplicate key wins
RECURSIVE ParsedMembers(_)
ParsedMembers(m) ==
    IF Len(m) < 2 THEN EmptyObject
    ELSE ParsedMembers(SubSeq(m, 4, Len(m))) @@ (m[1].name :> JsonValue(m[2]))

\* the own enumerable properties that {...parsed} copies, line 458
Spread(text) ==
    IF text[1] = OB THEN ParsedMembers(SubSeq(text, 2, Len(text) - 1))
    ELSE [f \in {DigitChars[i] : i \in 1..Len(text[1].items)} |->
            VStr(text[1].items[CHOOSE i \in 1..Len(text[1].items) : DigitChars[i] = f])]

\* historicalData.length, 0 when there is none (lines 461, 501)
HistoryLen(history) == IF history.kind = "list" THEN Len(history.items) ELSE 0

MetaFields(ticker, articles, history) ==
    ("articlesAnalyzed" :> VNum(Len(Slice(articles.items, MaxAnalyzed))))
    @@ ("totalArticles" :> VNum(Len(articles.items)))
    @@ ("historicalArticlesUsed" :> VNum(HistoryLen(history)))
    @@ ("lastUpdated" :> VStr(<<"now">>))
    @@ ("ticker" :> VStr(<<ticker>>))

\* lines 457-464
ParsedResult(ticker, articles, history, text) ==
    MetaFields(ticker, articles, history) @@ Spread(text)

\* text.includes('"summary":'), line 475
HasSummaryKey(text) == \E i \in 1..Len(text) : text[i] = Key("summary")

HasQuote(words) == \E i \in 1..Len(words) : words[i] = BSQ

\* what [^"]* takes from a string literal: all of it up to the first quote
\* character, the backslash of an escaped quote included
BeforeQuote(words) ==
    IF HasQuote(words)
    THEN SubSeq(words, 1, Min({i \in 1..Len(words) : words[i] = BSQ}) - 1) \o <<"\\">>
    ELSE words

\* /"name":\s*"([^"]*(?:[^"\\]|\\.)*)/ : places of the key followed by a string literal
OpenStringAfter(text, name) ==
    {i \in 1..(Len(text) - 1) : text[i] = Key(name) /\ text[i + 1].k = "str"}

\* /"name":\s*"([^"]*)"/ : the literal must also hold a quote that ends the match
ClosedStringAfter(text, name) ==
    {i \in OpenStringAfter(text, name) : text[i + 1].closed \/ HasQuote(text[i + 1].w)}

\* /"keyPoints":\s*(\[[^\]]*\])/
ArrayAfter(text, name) ==
    {i \in 1..(Len(text) - 1) : text[i] = Key(name) /\ text[i + 1].k = "arr" /\ text[i + 1].closed}

\* the text matched by the first group of the first match
Captured(text, places) == BeforeQuote(text[Min(places) + 1].w)

\* JSON.parse(keyPointsMatch[1]) throws, line 486
RecoveryRaises(text) ==
    /\ ArrayAfter(text, "keyPoints") # {}
    /\ ~text[Min(ArrayAfter(text, "keyPoints")) + 1].ok

RecoveredString(text, places, default) ==
    IF places # {} THEN VStr(Captured(text, places)) ELSE VStr(default)

\* the list used for keyPoints when the reply holds none, line 486
DefaultKeyPoints == <<<<"Analysis continues">>, <<"Partial data received">>>>

\* lines 484-493
Reconstructed(text) ==
    ("summary" :> RecoveredString(text, OpenStringAfter(text, "summary"),
                     <<"Analysis in progress - partial data received">>))
    @@ ("keyPoints" :> IF ArrayAfter(text, "keyPoints") # {}
                       THEN VArr(text[Min(ArrayAfter(text, "keyPoints")) + 1].items)
                       ELSE VArr(DefaultKeyPoints))
    @@ ("sentiment" :> RecoveredString(text, ClosedStringAfter(text, "sentiment"), <<"neutral">>))
    @@ ("sentimentReasoning" :> VStr(<<"Partial analysis - full response was truncated">>))
    @@ ("whatChangedToday" :> RecoveredString(text, OpenStringAfter(text, "whatChangedToday"),
                     <<"Recent developments are being analyzed. Please refresh for complete analysis.">>))
    @@ ("marketImplications" :> RecoveredString(text, OpenStringAfter(text, "marketImplications"),
                     <<"Market analysis available but truncated">>))
    @@ ("marketImpact" :> RecoveredString(text, ClosedStringAfter(text, "marketImpact"), <<"medium">>))
    @@ ("confidence" :> VStr(<<"low">>))

\* lines 497-505
RecoveredResult(ticker, articles, history, text) ==
    ("_recovered" :> VTrue) @@ MetaFields(ticker, articles, history) @@ Reconstructed(text)

\* the words of the text, token by token
RECURSIVE WordsOf(_)
WordsOf(text) ==
    IF Len(text) = 0 THEN <<>>
    ELSE (CASE text[1].k \in {"str", "prose", "bullet"} -> text[1].w
            [] text[1].k = "key" -> <<text[1].name>>
            [] OTHER -> <<>>) \o WordsOf(Tail(text))

\* extractKeyPoints, lines 559-570
extractKeyPoints(text) ==
    LET bullets == SelectSeq(text, LAMBDA tok : tok.k = "bullet")
        points == Slice([i \in 1..Len(bullets) |-> bullets[i].w], 5)
    IN IF Len(points) > 0 THEN points
       ELSE <<<<"Market activity continues">>, <<"News developments ongoing">>,
              <<"Investor attention warranted">>>>

PositiveWords ==
    {"positive", "bullish", "optimistic", "growth", "increase", "up", "gain", "strong",
     "good", "excellent", "surge", "rally", "beat", "exceeds"}

NegativeWords ==
    {"negative", "bearish", "pessimistic", "decline", "decrease", "down", "loss", "weak",
     "bad", "poor", "fall", "drop", "miss", "below"}

\* extractSentiment, lines 572-582
extractSentiment(text) ==
    LET words == WordsOf(text)
        positiveMatches == Cardinality({i \in 1..Len(words) : words[i] \in PositiveWords})
        negativeMatches == Cardinality({i \in 1..Len(words) : words[i] \in NegativeWords})
    IN IF positiveMatches > negativeMatches THEN "positive"
       ELSE IF negativeMatches > positiveMatches THEN "negative"
       ELSE "neutral"

\* extractWhatChanged, lines 584-600: the first sentence that starts with
\* one of the change words, else the placeholder
extractWhatChanged(text) ==
    LET words == WordsOf(text)
        at == {i \in 1..Len(words) : words[i] \in {"recently", "today's"}}
    IN IF at # {} THEN SubSeq(words, Min(at), Len(words))
       ELSE <<"Recent developments indicate continued market activity.">>

\* extractMarketImplications, lines 603-620
extractMarketImplications(text) ==
    LET words == WordsOf(text)
        at == {i \in 1..Len(words) : words[i] \in {"investors", "investor"}}
    IN IF at # {} THEN SubSeq(words, Min(at), Len(words))
       ELSE <<"Market implications remain to be determined.">>

\* lines 516-527
TextFallbackResult(ticker, articles, text) ==
    ("summary" :> VStr(WordsOf(text) \o <<"...">>))
    @@ ("keyPoints" :> VArr(extractKeyPoints(text)))
    @@ ("sentiment" :> VStr(<<extractSentiment(text)>>))
    @@ ("whatChangedToday" :> VStr(extractWhatChanged(text)))
    @@ ("marketImplications" :> VStr(extractMarketImplications(text)))
    @@ ("articlesAnalyzed" :> VNum(Len(Slice(articles.items, MaxAnalyzed))))
    @@ ("totalArticles" :> VNum(Len(articles.items)))
    @@ ("lastUpdated" :> VStr(<<"now">>))
    @@ ("ticker" :> VStr(<<ticker>>))
    @@ ("fallback" :> VTrue)

\* lines 442-528: the object returned for a reply text
ResultOfReply(ticker, articles, history, rawText) ==
    LET text == StripFences(rawText)
    IN IF JsonOk(text) THEN ParsedResult(ticker, articles, history, text)
       ELSE IF HasSummaryKey(text) /\ ~RecoveryRaises(text)
            THEN RecoveredResult(ticker, articles, history, text)
            ELSE TextFallbackResult(ticker, articles, text)

\* lines 372-380
NoNewsResult(ticker) ==
    ("summary" :> VStr(<<"No recent news available for", ticker,
                         ". Please check back later for the latest updates.">>))
    @@ ("keyPoints" :> VArr(<<>>))
    @@ ("sentiment" :> VStr(<<"neutral">>))
    @@ ("articlesAnalyzed" :> VNum(0))
    @@ ("whatChangedToday" :> VStr(<<"No recent news to analyze changes.">>))

\* a test that lets an empty array through
NoArticlesAbsentOnly(articles) == articles.kind = "absent"

\* line 372: !articles || articles.length === 0
NoArticles(articles) ==
    articles.kind = "absent" \/ (articles.kind = "list" /\ Len(articles.items) = 0)

\* lines 386-402: building the prompt throws (slice or map missing, a
\* property of null read, substring of undefined called)
PromptRaises(articles, history) ==
    \/ articles.kind = "nonlist"
    \/ \E i \in 1..Len(Slice(articles.items, MaxAnalyzed)) : articles.items[i].e # "ok"
    \/ /\ history.kind = "list"
       /\ \E i \in 1..Len(Slice(history.items, 15)) : history.items[i].e = "null"

\* line 541: articles.slice(0, 3).map(a => a.title) throws
CatchRaises(articles) ==
    \/ articles.kind = "nonlist"
    \/ \E i \in 1..Len(Slice(articles.items, 3)) : articles.items[i].e = "null"

TitleOf(elem) == IF elem.e = "ok" THEN elem.a.title ELSE <<"undefined">>

\* lines 541-552
ErrorFallbackResult(ticker, articles) ==
    LET first == Slice(articles.items, 3)
        recentTitles == [i \in 1..Len(first) |-> TitleOf(first[i])]
    IN ("summary" :> VStr(<<"Analysis of recent articles about", ticker>>))
       @@ ("keyPoints" :> VArr(recentTitles))
       @@ ("sentiment" :> VStr(<<"neutral">>))
       @@ ("whatChangedToday" :> VStr(<<"Unable to analyze changes due to processing error.">>))
       @@ ("marketImplications" :> VStr(<<"Analysis temporarily unavailable.">>))
       @@ ("articlesAnalyzed" :> VNum(Len(articles.items)))
       @@ ("error" :> VStr(<<"error.message">>))
       @@ ("lastUpdated" :> VStr(<<"now">>))
       @@ ("ticker" :> VStr(<<ticker>>))

Returned(obj) == [status |-> "returned", obj |-> obj]

Raised == [status |-> "raised", obj |-> EmptyObject]

\* lines 530-556: the outcome of the catch block
CatchOutcome(ticker, articles) ==
    IF CatchRaises(articles) THEN Raised
    ELSE Returned(ErrorFallbackResult(ticker, articles))

----------------------------------------------------------------------------
(* AIProcessor.generateSummary: the call *)

NoReply == [present |-> FALSE, text |-> <<>>]

\* no generateSummary call is under study
InitGen ==
    /\ genPc = "idle"
    /\ genTicker = "AAPL"
    /\ genArticles = ArgAbsent
    /\ genHistory = ArgAbsent
    /\ genResult = Returned(EmptyObject)
    /\ genReply = NoReply
    /\ genGenCalls = 0

\* generateSummary(ticker, articles, historicalData), lines 371-383, up to
\* its first suspension
GenerateCall(ticker, articles, history) ==
    /\ genPc = "idle"
    /\ genTicker' = ticker
    /\ genArticles' = articles
    /\ genHistory' = history
    /\ genReply' = NoReply
    /\ genGenCalls' = 0
    /\ IF NoArticles(articles)
       THEN /\ genResult' = Returned(NoNewsResult(ticker))
            /\ genPc' = "done"
            /\ UNCHANGED <<requestCount, lastRequestTime, wakeAt>>
       ELSE /\ Len(starts) < MaxGenCalls
            /\ genResult' = Returned(EmptyObject)
            /\ IF RateLimitMustWait(now, requestCount, lastRequestTime)
               THEN /\ now + RateLimitWaitTime(now, lastRequestTime) <= LastInstant
                    /\ wakeAt' = [wakeAt EXCEPT ![1] = now + RateLimitWaitTime(now, lastRequestTime)]
                    /\ genPc' = "waiting"
                    /\ UNCHANGED <<requestCount, lastRequestTime>>
               ELSE /\ requestCount' = RateLimitCount(now, requestCount, lastRequestTime)
                    /\ lastRequestTime' = RateLimitWindow(now, lastRequestTime)
                    /\ genPc' = "admitted"
                    /\ UNCHANGED wakeAt
    /\ UNCHANGED <<now, pc, op, winStart, starts>>
    /\ UNCHANGED outsideGen

\* the timer of rateLimit fires, lines 270-278
GenerateWake ==
    /\ genPc = "waiting"
    /\ now >= wakeAt[1]
    /\ requestCount' = RateLimitCountAfterWait(requestCount)
    /\ lastRequestTime' = now
    /\ wakeAt' = [wakeAt EXCEPT ![1] = 0]
    /\ genPc' = "admitted"
    /\ UNCHANGED <<now, pc, op, winStart, starts>>
    /\ UNCHANGED <<genTicker, genArticles, genHistory, genResult, genReply, genGenCalls>>
    /\ UNCHANGED outsideGen

\* lines 386-432: the prompt is built, the request is counted once more and
\* model.generateContent is called; when building the prompt throws, the
\* catch block of lines 530-556 runs instead
GenerateStart ==
    /\ genPc = "admitted"
    /\ IF PromptRaises(genArticles, genHistory)
       THEN /\ genResult' = CatchOutcome(genTicker, genArticles)
            /\ genPc' = "done"
            /\ UNCHANGED <<requestCount, starts, genGenCalls>>
       ELSE /\ requestCount' = SummaryExtraCount("summary", requestCount)
            /\ starts' = Append(starts, now)
            /\ genGenCalls' = genGenCalls + 1
            /\ genPc' = "calling"
            /\ UNCHANGED genResult
    /\ UNCHANGED <<now, lastRequestTime, pc, op, wakeAt, winStart>>
    /\ UNCHANGED <<genTicker, genArticles, genHistory, genReply>>
    /\ UNCHANGED outsideGen

\* the service replies with a text: lines 433-528
GenerateReply(text) ==
    /\ genPc = "calling"
    /\ genResult' = Returned(ResultOfReply(genTicker, genArticles, genHistory, text))
    /\ genReply' = [present |-> TRUE, text |-> text]
    /\ genPc' = "done"
    /\ UNCHANGED aiVars
    /\ UNCHANGED <<genTicker, genArticles, genHistory, genGenCalls>>
    /\ UNCHANGED outsideGen

\* the call to the service raises: lines 530-556
GenerateFail ==
    /\ genPc = "calling"
    /\ genResult' = CatchOutcome(genTicker, genArticles)
    /\ genPc' = "done"
    /\ UNCHANGED aiVars
    /\ UNCHANGED <<genTicker, genArticles, genHistory, genReply, genGenCalls>>
    /\ UNCHANGED outsideGen

\* the caller has taken the result or the exception
GenerateReturn ==
    /\ genPc = "done"
    /\ genPc' = "idle"
    /\ genTicker' = "AAPL"
    /\ genArticles' = ArgAbsent
    /\ genHistory' = ArgAbsent
    /\ genResult' = Returned(EmptyObject)
    /\ genReply' = NoReply
    /\ genGenCalls' = 0
    /\ UNCHANGED aiVars
    /\ UNCHANGED outsideGen

----------------------------------------------------------------------------
(* NewsCollector: strings, relevance and fingerprints *)

\* A string is the sequence of its characters.
LowerLetters == <<"a", "b", "c", "d", "e", "f", "g", "h", "i", "j", "k", "l", "m", "n", "o", "p", "q", "r", "s", "t", "u", "v", "w", "x", "y", "z">>

UpperLetters == <<"A", "B", "C", "D", "E", "F", "G", "H", "I", "J", "K", "L", "M", "N", "O", "P", "Q", "R", "S", "T", "U", "V", "W", "X", "Y", "Z">>

CharsOf(s) == {s[i] : i \in 1..Len(s)}

\* the lower-case letter of every upper-case letter
LowerOf == [c \in CharsOf(UpperLetters) |->
               LowerLetters[CHOOSE k \in 1..Len(UpperLetters) : UpperLetters[k] = c]]

\* String.prototype.toLowerCase
toLowerCase(s) == [i \in 1..Len(s) |-> IF s[i] \in DOMAIN LowerOf THEN LowerOf[s[i]] ELSE s[i]]

\* String.prototype.includes
includes(s, sub) ==
    \E i \in 1..(Len(s) - Len(sub) + 1) : SubSeq(s, i, i + Len(sub) - 1) = sub

\* a character repeated n times
Repeat(c, n) == [i \in 1..n |-> c]

\* the characters of a ticker symbol
TickerText(ticker) ==
    CASE ticker = "AAPL" -> <<"A", "A", "P", "L">>
      [] ticker = "TSLA" -> <<"T", "S", "L", "A">>

\* lines 1678-1688: the alternatives of the company pattern, lower case
companyNames(ticker) ==
    CASE ticker = "AAPL" -> {<<"a", "p", "p", "l", "e">>}
      [] ticker = "TSLA" -> {<<"t", "e", "s", "l", "a">>}
      [] OTHER -> {toLowerCase(TickerText(ticker))}

\* lines 1674-1699
isRelevantNews(text, ticker) ==
    LET textLower == toLowerCase(text)
        tickerLower == toLowerCase(TickerText(ticker))
    IN \/ includes(textLower, tickerLower)
       \/ \E name \in companyNames(ticker) : includes(textLower, name)
       \/ includes(textLower, <<"e", "a", "r", "n", "i", "n", "g", "s">>)
       \/ includes(textLower, <<"r", "e", "v", "e", "n", "u", "e">>)
       \/ includes(textLower, <<"a", "n", "a", "l", "y", "s", "t">>)
       \/ includes(textLower, <<"u", "p", "g", "r", "a", "d", "e">>)
       \/ includes(textLower, <<"d", "o", "w", "n", "g", "r", "a", "d", "e">>)
       \/ includes(textLower, <<"p", "r", "i", "c", "e", " ", "t", "a", "r", "g", "e", "t">>)

\* lines 1664-1672
isValidNewsHeadline(headline) ==
    /\ Len(headline) > 20
    /\ Len(headline) < 300
    /\ ~includes(toLowerCase(headline), <<"m", "o", "r", "e", " ", "i", "n", " ", "n", "e", "w", "s", " ", "f", "l", "o", "w">>)
    /\ ~includes(toLowerCase(headline), <<"t", "i", "m", "e", " ", "s", "y", "m", "b", "o", "l", " ", "h", "e", "a", "d", "l", "i", "n", "e">>)
    /\ ~includes(toLowerCase(headline), <<"t", "r", "a", "d", "i", "n", "g", "v", "i", "e", "w">>)
    /\ includes(headline, <<" ">>)

\* lines 1200-1213: the relevance filter of collectNews
CollectRelevant(article, ticker) ==
    LET tickerLower == toLowerCase(TickerText(ticker))
        titleLower == toLowerCase(article.title)
        contentLower == toLowerCase(article.content)
    IN \/ includes(titleLower, tickerLower)
       \/ includes(contentLower, tickerLower)
       \/ includes(titleLower, <<"e", "a", "r", "n", "i", "n", "g", "s">>)
       \/ includes(titleLower, <<"r", "e", "v", "e", "n", "u", "e">>)
       \/ includes(titleLower, <<"a", "n", "a", "l", "y", "s", "t">>)
       \/ includes(titleLower, <<"p", "r", "i", "c", "e", " ", "t", "a", "r", "g", "e", "t">>)
       \/ includes(titleLower, <<"u", "p", "g", "r", "a", "d", "e">>)
       \/ includes(titleLower, <<"d", "o", "w", "n", "g", "r", "a", "d", "e">>)

FingerprintLen == 50

AlnumChars == CharsOf(LowerLetters) \cup CharsOf(DigitChars)

\* /[a-z0-9]/
IsAlnum(c) == c \in AlnumChars

\* lines 1951-1955: lower case, /[^a-z0-9]/g removed, substring(0, 50); the
\* trim finds no white space left
Fingerprint(title) == Slice(SelectSeq(toLowerCase(title), IsAlnum), FingerprintLen)

\* lines 1949-1961: the first article of every non-empty fingerprint
RECURSIVE Dedup(_, _, _)
Dedup(articles, seen, unique) ==
    IF articles = <<>> THEN unique
    ELSE LET fingerprint == Fingerprint(Head(articles).title)
         IN IF fingerprint # <<>> /\ fingerprint \notin seen
            THEN Dedup(Tail(articles), seen \cup {fingerprint}, Append(unique, Head(articles)))
            ELSE Dedup(Tail(articles), seen, unique)

\* line 1963: stable insertion, newest first
RECURSIVE InsertByRecency(_, _)
InsertByRecency(sorted, a) ==
    IF sorted = <<>> THEN <<a>>
    ELSE IF Head(sorted).publishedAt >= a.publishedAt
         THEN <<Head(sorted)>> \o InsertByRecency(Tail(sorted), a)
         ELSE <<a>> \o sorted

RECURSIVE SortByRecency(_)
SortByRecency(list) ==
    IF list = <<>> THEN <<>>
    ELSE InsertByRecency(SortByRecency(SubSeq(list, 1, Len(list) - 1)), list[Len(list)])

\* a pass that keeps every article, seen or not
removeDuplicatesKeepsAll(articles) ==
    SortByRecency(SelectSeq(articles, LAMBDA a : Fingerprint(a.title) # <<>>))

\* lines 1945-1964
removeDuplicates(articles) == SortByRecency(Dedup(articles, {}, <<>>))

----------------------------------------------------------------------------
(* NewsCollector: the source adapters *)

AdapterNames == {"TradingView", "Finviz", "Polygon"}

\* the state of the promise of one adapter call, with the kind of response
\* that settled it
NotStarted == [status |-> "notStarted", value |-> <<>>, kind |-> "none"]
Pending == [status |-> "pending", value |-> <<>>, kind |-> "none"]
Fulfilled(list, kind) == [status |-> "fulfilled", value |-> list, kind |-> kind]
Rejected(kind) == [status |-> "rejected", value |-> <<>>, kind |-> kind]

\* What the remote site answers: no answer within the timeout, an HTTP
\* status, a 200 body without the expected structure, or a 200 body with
\* items in it.
Timeout == [kind |-> "timeout", code |-> 0, items |-> <<>>]
Status(code) == [kind |-> "status", code |-> code, items |-> <<>>]
Garbled == [kind |-> "garbled", code |-> 200, items |-> <<>>]
Page(items) == [kind |-> "page", code |-> 200, items |-> items]

\* axios.get with timeout 15000 and validateStatus: status < 500
AxiosRejects(response) ==
    response.kind = "timeout" \/ (response.kind = "status" /\ response.code >= 500)

DigitOf == [c \in CharsOf(DigitChars) |-> (CHOOSE k \in 1..Len(DigitChars) : DigitChars[k] = c) - 1]

\* /\d/
IsDigit(c) == c \in DOMAIN DigitOf

DigitValue(c) == DigitOf[c]

\* the number written by the leading digits of s, after the digits in acc
RECURSIVE LeadingNumber(_, _)
LeadingNumber(s, acc) ==
    IF s = <<>> \/ ~IsDigit(Head(s)) THEN acc
    ELSE LeadingNumber(Tail(s), 10 * acc + DigitValue(Head(s)))

\* parseInt(timeText.match(/\d+/)[0]); -1 stands for a null match
RECURSIVE FirstNumber(_)
FirstNumber(s) ==
    IF s = <<>> THEN -1
    ELSE IF IsDigit(Head(s)) THEN LeadingNumber(s, 0)
    ELSE FirstNumber(Tail(s))

MinutesAgo == <<"m", "i", "n", "u", "t", "e", "s", " ", "a", "g", "o">>

HoursAgo == <<"h", "o", "u", "r", "s", " ", "a", "g", "o">>

\* lines 1607-1613: indexing the null match raises a TypeError
createNewsItemRaises(timeText) ==
    (includes(timeText, MinutesAgo) \/ includes(timeText, HoursAgo)) /\ FirstNumber(timeText) = -1

\* lines 1597-1624
createNewsItem(headline, timeText, t) ==
    LET publishedAt ==
            IF includes(timeText, MinutesAgo) THEN t - FirstNumber(timeText) * 60 * 1000
            ELSE IF includes(timeText, HoursAgo) THEN t - FirstNumber(timeText) * 60 * 60 * 1000
            ELSE t
    IN Article(headline, headline, "TradingView", publishedAt)

MaxAdapterNews == 15

\* lines 1345-1368: the rows of the news table, in page order; the table has
\* a time, a symbol and a headline cell in every row
RECURSIVE TradingViewRows(_, _, _, _)
TradingViewRows(rows, ticker, t, news) ==
    IF rows = <<>> \/ Len(news) >= MaxAdapterNews THEN Fulfilled(news, "page")
    ELSE LET row == Head(rows)
         IN IF isValidNewsHeadline(row.headline) /\ isRelevantNews(row.headline, ticker)
            THEN IF createNewsItemRaises(row.timeText) THEN Rejected("exception")
                 ELSE TradingViewRows(Tail(rows), ticker, t,
                          Append(news, createNewsItem(row.headline, row.timeText, t)))
            ELSE TradingViewRows(Tail(rows), ticker, t, news)

\* lines 1570-1595
checkRelevance(text, ticker, symbolText) ==
    LET textLower == toLowerCase(text)
        tickerLower == toLowerCase(TickerText(ticker))
    IN \/ includes(textLower, tickerLower)
       \/ \E name \in companyNames(ticker) : includes(textLower, name)
       \/ includes(symbolText, TickerText(ticker))
       \/ includes(textLower, <<"e", "a", "r", "n", "i", "n", "g", "s">>)
       \/ includes(textLower, <<"r", "e", "v", "e", "n", "u", "e">>)
       \/ includes(textLower, <<"a", "n", "a", "l", "y", "s", "t">>)
       \/ includes(textLower, <<"u", "p", "g", "r", "a", "d", "e">>)
       \/ includes(textLower, <<"d", "o", "w", "n", "g", "r", "a", "d", "e">>)

\* What the strategies of scrapeTradingView find in the answer: the news
\* objects in the JSON of the scripts, the rows of the news table, the answer
\* of the headlines API, the elements the news-item selectors match, the
\* anchors the headline patterns match, and the text of the elements of the
\* document, each in document order.
Document(scripts, rows, api, cards, anchors, texts) ==
    [scripts |-> scripts, rows |-> rows, api |-> api, cards |-> cards,
     anchors |-> anchors, texts |-> texts]

\* a news object of a script; published 0 stands for an object without a date
ScriptObject(title, published) == [title |-> title, published |-> published]

\* the headlines API does not answer, or answers with a status other than 200
ApiDown == [kind |-> "down", items |-> <<>>]

\* the headlines API answers with items that have these titles
ApiItems(titles) == [kind |-> "items", items |-> titles]

\* an element with a headline and a time text
Element(headline, timeText) == [headline |-> headline, timeText |-> timeText]

\* a document that holds a news table and nothing else
RowsDocument(rows) == Document(<<>>, rows, ApiDown, <<>>, <<>>, <<>>)

DocumentPage(doc) == [kind |-> "document", code |-> 200, items |-> doc]

\* the document of a 200 answer
DocumentOf(response) ==
    IF response.kind = "document" THEN response.items ELSE RowsDocument(response.items)

\* lines 1262-1330 and 1626-1660: the relevant news objects of the scripts
RECURSIVE ScriptNews(_, _, _, _)
ScriptNews(objects, ticker, t, news) ==
    IF objects = <<>> THEN news
    ELSE LET object == Head(objects)
         IN IF object.title # <<>> /\ isRelevantNews(object.title, ticker)
            THEN ScriptNews(Tail(objects), ticker, t,
                     Append(news, Article(object.title, object.title, "TradingView",
                                          IF object.published = 0 THEN t ELSE object.published)))
            ELSE ScriptNews(Tail(objects), ticker, t, news)

\* lines 1701-1724: parseAlternativeAPI
RECURSIVE parseAlternativeAPI(_, _, _, _)
parseAlternativeAPI(titles, ticker, t, news) ==
    IF titles = <<>> THEN news
    ELSE IF Head(titles) # <<>> /\ isRelevantNews(Head(titles), ticker)
    THEN parseAlternativeAPI(Tail(titles), ticker, t,
             Append(news, Article(Head(titles), Head(titles), "TradingView", t)))
    ELSE parseAlternativeAPI(Tail(titles), ticker, t, news)

Ago == <<"a", "g", "o">>

\* 'table tr:has(td:contains("ago"))', line 1401: a cell of the row holds "ago"
HasAgo(row) ==
    includes(row.timeText, Ago) \/ includes(row.symbolText, Ago) \/ includes(row.headline, Ago)

\* lines 1414-1441: the table rows a selector of Strategy 1 matches
RECURSIVE SelectorRows(_, _, _, _)
SelectorRows(rows, ticker, t, news) ==
    IF rows = <<>> \/ Len(news) >= MaxAdapterNews THEN Fulfilled(news, "page")
    ELSE LET row == Head(rows)
         IN IF /\ Len(row.headline) > 15
               /\ includes(row.timeText, Ago)
               /\ checkRelevance(row.headline, ticker, row.symbolText)
            THEN IF createNewsItemRaises(row.timeText) THEN Rejected("exception")
                 ELSE SelectorRows(Tail(rows), ticker, t,
                          Append(news, createNewsItem(row.headline, row.timeText, t)))
            ELSE SelectorRows(Tail(rows), ticker, t, news)

\* lines 1442-1460: the other elements a selector of Strategy 1 matches
RECURSIVE SelectorCards(_, _, _, _)
SelectorCards(cards, ticker, t, news) ==
    IF cards = <<>> \/ Len(news) >= MaxAdapterNews THEN Fulfilled(news, "page")
    ELSE LET card == Head(cards)
         IN IF Len(card.headline) > 15 /\ checkRelevance(card.headline, ticker, <<>>)
            THEN IF createNewsItemRaises(card.timeText) THEN Rejected("exception")
                 ELSE SelectorCards(Tail(cards), ticker, t,
                          Append(news, createNewsItem(card.headline, card.timeText, t)))
            ELSE SelectorCards(Tail(cards), ticker, t, news)

\* lines 1409-1465: the selectors are tried in turn, the loop ends after the
\* first one that matches something once the list is not empty
SelectorNews(doc, ticker, t, news) ==
    LET agoRows == SelectSeq(doc.rows, HasAgo)
        fromRows == IF agoRows # <<>> THEN SelectorRows(agoRows, ticker, t, news)
                    ELSE Fulfilled(news, "page")
    IN IF fromRows.status = "rejected" THEN fromRows
       ELSE IF agoRows # <<>> /\ fromRows.value # <<>> THEN fromRows
       ELSE IF doc.cards # <<>> THEN SelectorCards(doc.cards, ticker, t, fromRows.value)
       ELSE fromRows

MaxPatternNews == 10

\* lines 1485-1510: the anchors the headline patterns match
RECURSIVE PatternNews(_, _, _, _)
PatternNews(anchors, ticker, t, news) ==
    IF anchors = <<>> \/ Len(news) >= MaxPatternNews THEN Fulfilled(news, "page")
    ELSE LET anchor == Head(anchors)
             headline == anchor.headline
         IN IF /\ Len(headline) > 25
               /\ Len(headline) < 300
               /\ ~includes(toLowerCase(headline), <<"t", "r", "a", "d", "i", "n", "g", "v", "i", "e", "w">>)
               /\ ~includes(toLowerCase(headline), <<"c", "h", "a", "r", "t">>)
               /\ ~includes(toLowerCase(headline), <<"s", "y", "m", "b", "o", "l">>)
               /\ includes(headline, <<" ">>)
               /\ checkRelevance(headline, ticker, <<>>)
            THEN IF createNewsItemRaises(anchor.timeText) THEN Rejected("exception")
                 ELSE PatternNews(Tail(anchors), ticker, t,
                          Append(news, createNewsItem(headline, anchor.timeText, t)))
            ELSE PatternNews(Tail(anchors), ticker, t, news)

\* /\w/
IsWordChar(c) == IsAlnum(c) \/ c \in CharsOf(UpperLetters) \/ c = "_"

\* /\bword\b/i.test(text)
HasWord(text, word) ==
    LET textLower == toLowerCase(text)
    IN \E i \in 1..(Len(text) - Len(word) + 1) :
          /\ SubSeq(textLower, i, i + Len(word) - 1) = word
          /\ (i = 1 \/ ~IsWordChar(text[i - 1]))
          /\ (i + Len(word) - 1 = Len(text) \/ ~IsWordChar(text[i + Len(word)]))

\* lines 1531-1537: the words of the news patterns
NewsWords ==
    {<<"s", "a", "y">>,
     <<"s", "a", "y", "s">>,
     <<"r", "e", "p", "o", "r", "t">>,
     <<"r", "e", "p", "o", "r", "t", "s">>,
     <<"a", "n", "n", "o", "u", "n", "c", "e">>,
     <<"a", "n", "n", "o", "u", "n", "c", "e", "s">>,
     <<"r", "e", "v", "e", "a", "l">>,
     <<"r", "e", "v", "e", "a", "l", "s">>,
     <<"e", "a", "r", "n", "i", "n", "g">>,
     <<"e", "a", "r", "n", "i", "n", "g", "s">>,
     <<"r", "e", "v", "e", "n", "u", "e">>,
     <<"p", "r", "o", "f", "i", "t">>,
     <<"l", "o", "s", "s">>,
     <<"u", "p", "g", "r", "a", "d", "e">>,
     <<"d", "o", "w", "n", "g", "r", "a", "d", "e">>,
     <<"t", "a", "r", "g", "e", "t">>,
     <<"a", "n", "a", "l", "y", "s", "t">>,
     <<"d", "e", "a", "l">>,
     <<"a", "g", "r", "e", "e", "m", "e", "n", "t">>,
     <<"m", "e", "r", "g", "e", "r">>,
     <<"a", "c", "q", "u", "i", "s", "i", "t", "i", "o", "n">>,
     <<"l", "a", "w", "s", "u", "i", "t">>,
     <<"c", "o", "u", "r", "t">>,
     <<"l", "e", "g", "a", "l">>,
     <<"r", "i", "g", "h", "t", "s">>}

\* line 1539
looksLikeNews(text) == \E word \in NewsWords : HasWord(text, word)

MaxScanNews == 5

\* lines 1526-1556: the text of every element of the document
RECURSIVE ScanNews(_, _, _, _)
ScanNews(texts, ticker, t, news) ==
    IF texts = <<>> \/ Len(news) >= MaxScanNews THEN news
    ELSE LET text == Head(texts)
         IN IF /\ looksLikeNews(text)
               /\ Len(text) > 30
               /\ Len(text) < 200
               /\ ~includes(toLowerCase(text), <<"t", "r", "a", "d", "i", "n", "g", "v", "i", "e", "w">>)
               /\ ~includes(toLowerCase(text), <<"c", "h", "a", "r", "t">>)
               /\ checkRelevance(text, ticker, <<>>)
            THEN ScanNews(Tail(texts), ticker, t, Append(news, createNewsItem(text, <<>>, t)))
            ELSE ScanNews(Tail(texts), ticker, t, news)

\* the strategies in the order of the code: Method 1 to 3, Strategy 1 to 3
StageOrder == <<"scripts", "feed", "api", "selectors", "patterns", "scan">>

\* the condition under which a strategy examines the document: Method 1 has
\* none; lines 1336, 1378, 1469 and 1523 ask for an empty list; Strategy 1,
\* line 1409, has none
StageRuns(stage, news) == news = <<>> \/ stage \in {"scripts", "selectors"}

\* the list after a strategy has examined the document, or the exception it raised
StageOutcome(stage, doc, ticker, t, news) ==
    CASE stage = "scripts" -> Fulfilled(ScriptNews(doc.scripts, ticker, t, news), "page")
      [] stage = "feed" -> IF Len(doc.rows) > 1 THEN TradingViewRows(doc.rows, ticker, t, news)
                           ELSE Fulfilled(news, "page")
      [] stage = "api" -> IF doc.api.kind = "items"
                          THEN Fulfilled(parseAlternativeAPI(doc.api.items, ticker, t, news), "page")
                          ELSE Fulfilled(news, "page")
      [] stage = "selectors" -> SelectorNews(doc, ticker, t, news)
      [] stage = "patterns" -> PatternNews(doc.anchors, ticker, t, news)
      [] stage = "scan" -> Fulfilled(ScanNews(doc.texts, ticker, t, news), "page")

\* lines 1258-1561: the strategies from the k-th on
RECURSIVE ExtractFrom(_, _, _, _, _)
ExtractFrom(k, doc, ticker, t, news) ==
    IF k > Len(StageOrder) THEN Fulfilled(news, "page")
    ELSE IF ~StageRuns(StageOrder[k], news) THEN ExtractFrom(k + 1, doc, ticker, t, news)
    ELSE LET outcome == StageOutcome(StageOrder[k], doc, ticker, t, news)
         IN IF outcome.status = "rejected" THEN outcome
            ELSE ExtractFrom(k + 1, doc, ticker, t, outcome.value)

\* lines 1234-1562: the try block of scrapeTradingView
TradingViewBody(response, ticker, t) ==
    IF AxiosRejects(response) THEN Rejected(response.kind)
    ELSE IF response.code # 200 THEN Fulfilled(<<>>, "status")
    ELSE IF response.kind = "garbled" THEN Fulfilled(<<>>, "garbled")
    ELSE ExtractFrom(1, DocumentOf(response), ticker, t, <<>>)

\* a catch block that passes the exception on
CatchRethrows(outcome) == outcome

\* lines 1564-1567, 1845-1848, 1931-1942: the catch block of an adapter
CatchReturnsEmpty(outcome) ==
    IF outcome.status = "rejected" THEN Fulfilled(<<>>, outcome.kind) ELSE outcome

\* lines 1233-1568
scrapeTradingView(response, ticker, t) == CatchReturnsEmpty(TradingViewBody(response, ticker, t))

\* lines 1966-1976; href is "" when the link has no address
isValidFinvizNews(title, href, ticker) ==
    /\ title # <<>>
    /\ href # <<>>
    /\ Len(title) >= 10
    /\ \/ includes(href, <<"h", "t", "t", "p">>)
       \/ includes(href, <<"n", "e", "w", "s">>)
       \/ includes(href, <<"r", "e", "u", "t", "e", "r", "s">>)
       \/ includes(href, <<"b", "l", "o", "o", "m", "b", "e", "r", "g">>)
    /\ isRelevantNews(title, ticker)

\* lines 1978-2012: the date the text denotes, or the current time when no
\* format matches it
parseFinvizDate(dateText, t) == IF dateText.matches THEN dateText.date ELSE t

\* lines 1806-1839: the rows of the news table, in page order
RECURSIVE FinvizRows(_, _, _, _)
FinvizRows(rows, ticker, t, news) ==
    IF rows = <<>> \/ Len(news) >= MaxAdapterNews THEN Fulfilled(news, "page")
    ELSE LET row == Head(rows)
         IN IF isValidFinvizNews(row.title, row.href, ticker)
            THEN FinvizRows(Tail(rows), ticker, t,
                     Append(news, Article(row.title, row.title, "Finviz",
                                          parseFinvizDate(row.dateText, t))))
            ELSE FinvizRows(Tail(rows), ticker, t, news)

\* lines 1727-1843: the try block of scrapeFinviz
FinvizBody(response, ticker, t) ==
    IF AxiosRejects(response) THEN Rejected(response.kind)
    ELSE IF response.code # 200 THEN Fulfilled(<<>>, "status")
    ELSE IF response.kind = "garbled" THEN Fulfilled(<<>>, "garbled")
    ELSE FinvizRows(response.items, ticker, t, <<>>)

\* lines 1726-1849
scrapeFinviz(response, ticker, t) == CatchReturnsEmpty(FinvizBody(response, ticker, t))

\* lines 1910-1926: data.results.forEach; reading the title of a null element
\* raises a TypeError
RECURSIVE PolygonResults(_, _, _)
PolygonResults(results, ticker, news) ==
    IF results = <<>> THEN Fulfilled(news, "page")
    ELSE LET article == Head(results)
         IN IF article.isNull THEN Rejected("exception")
            ELSE IF article.title = <<>> THEN PolygonResults(Tail(results), ticker, news)
            ELSE IF isRelevantNews(article.title, ticker)
            THEN PolygonResults(Tail(results), ticker,
                     Append(news, Article(article.title,
                                          IF article.description # <<>> THEN article.description
                                          ELSE article.title,
                                          "Polygon", article.published_utc)))
            ELSE PolygonResults(Tail(results), ticker, news)

\* lines 1857-1929: the try block of fetchPolygonNews
PolygonBody(response, ticker) ==
    IF AxiosRejects(response) THEN Rejected(response.kind)
    ELSE IF response.code = 401 \/ response.code = 403 THEN Fulfilled(<<>>, "status")
    ELSE IF response.code # 200 THEN Fulfilled(<<>>, "status")
    ELSE IF response.kind = "garbled" THEN Fulfilled(<<>>, "garbled")
    ELSE PolygonResults(response.items, ticker, <<>>)

\* lines 1851-1943, with an API key configured
fetchPolygonNews(response, ticker) == CatchReturnsEmpty(PolygonBody(response, ticker))

\* lines 1852-1855: without an API key no request is made
PolygonWithoutKey == Fulfilled(<<>>, "nokey")

----------------------------------------------------------------------------
(* NewsCollector: what the sources publish *)

BeatsEarnings == <<"A", "p", "p", "l", "e", " ", "B", "e", "a", "t", "s", " ", "E", "a", "r", "n", "i", "n", "g", "s", "!">>

BeatsEarningsPlain == <<"a", "p", "p", "l", "e", " ", "b", "e", "a", "t", "s", " ", "e", "a", "r", "n", "i", "n", "g", "s">>

UnveilsPhone == <<"A", "p", "p", "l", "e", " ", "u", "n", "v", "e", "i", "l", "s", " ", "n", "e", "w", " ", "i", "P", "h", "o", "n", "e">>

BothUpgrade == <<"T", "S", "L", "A", " ", "a", "n", "d", " ", "A", "A", "P", "L", " ", "u", "p", "g", "r", "a", "d", "e">>

\* two titles that differ only after their 50th letter
LongTitle(last) == <<"A", "A", "P", "L", "-">> \o Repeat("a", FingerprintLen - 4) \o <<last>>

TradingViewSymbolRow(timeText, symbolText, headline) ==
    [timeText |-> timeText, symbolText |-> symbolText, headline |-> headline]

\* a row whose symbol cell is empty
TradingViewRow(timeText, headline) == TradingViewSymbolRow(timeText, <<>>, headline)

TradingViewPages ==
    { <<TradingViewRow(<<"5", " ", "m", "i", "n", "u", "t", "e", "s", " ", "a", "g", "o">>, BeatsEarnings),
        TradingViewRow(<<"2", " ", "h", "o", "u", "r", "s", " ", "a", "g", "o">>, UnveilsPhone),
        TradingViewRow(<<"1", "0", " ", "m", "i", "n", "u", "t", "e", "s", " ", "a", "g", "o">>, BothUpgrade)>>,
      <<TradingViewRow(<<>>, BeatsEarnings),
        TradingViewRow(<<"f", "e", "w", " ", "m", "i", "n", "u", "t", "e", "s", " ", "a", "g", "o">>, BothUpgrade)>> }

DateText(matches, date) == [matches |-> matches, date |-> date]

FinvizRow(dateText, title, href) == [dateText |-> dateText, title |-> title, href |-> href]

FinvizPages ==
    { <<FinvizRow(DateText(TRUE, -86400000), BeatsEarningsPlain, <<"h", "t", "t", "p", "s", ":", "/", "/", "r">>),
        FinvizRow(DateText(FALSE, 0), BothUpgrade, <<"/", "n", "e", "w", "s", "/", "1">>),
        FinvizRow(DateText(TRUE, -86400000), UnveilsPhone, <<"/", "q">>),
        FinvizRow(DateText(FALSE, 0), BeatsEarnings, <<>>)>> }

PolygonItem(title, description, published) ==
    [isNull |-> FALSE, title |-> title, description |-> description, published_utc |-> published]

PolygonNull == [isNull |-> TRUE, title |-> <<>>, description |-> <<>>, published_utc |-> 0]

PolygonPages ==
    { <<PolygonItem(LongTitle("b"), <<>>, -3600000),
        PolygonItem(<<>>, <<"A", "A", "P", "L">>, -60000),
        PolygonItem(LongTitle("c"), <<>>, -7200000),
        PolygonItem(UnveilsPhone, <<"A", "A", "P", "L", " ", "a", "n", "d", " ", "T", "S", "L", "A">>, -60000)>>,
      <<PolygonItem(BothUpgrade, <<>>, -60000), PolygonNull>> }

Faults == {Timeout, Status(503), Status(404), Garbled}

Responses(a) ==
    CASE a = "TradingView" -> Faults \cup {Page(p) : p \in TradingViewPages}
      [] a = "Finviz" -> Faults \cup {Page(p) : p \in FinvizPages}
      [] a = "Polygon" -> Faults \cup {Status(401)} \cup {Page(p) : p \in PolygonPages}

FaultKinds == {"timeout", "status", "garbled", "exception"}

\* the news table of a TradingView page
TableRows ==
    <<TradingViewRow(<<"5", " ", "m", "i", "n", "u", "t", "e", "s", " ", "a", "g", "o">>, BeatsEarnings),
      TradingViewRow(<<"2", " ", "h", "o", "u", "r", "s", " ", "a", "g", "o">>, UnveilsPhone),
      TradingViewRow(<<"1", "0", " ", "m", "i", "n", "u", "t", "e", "s", " ", "a", "g", "o">>, BothUpgrade)>>

MarketsClose == <<"M", "a", "r", "k", "e", "t", "s", " ", "c", "l", "o", "s", "e", " ", "h", "i", "g", "h", "e", "r", " ", "o", "n", " ", "F", "r", "i", "d", "a", "y">>

\* rows whose headline names no company and whose symbol cell does
SymbolRows ==
    <<TradingViewSymbolRow(<<"3", " ", "h", "o", "u", "r", "s", " ", "a", "g", "o">>, <<"A", "A", "P", "L">>, MarketsClose),
      TradingViewSymbolRow(<<"4", " ", "h", "o", "u", "r", "s", " ", "a", "g", "o">>, <<"T", "S", "L", "A">>, MarketsClose)>>

AnalystDay == <<"A", "p", "p", "l", "e", " ", "a", "n", "a", "l", "y", "s", "t", " ", "d", "a", "y", " ", "s", "e", "t", " ", "f", "o", "r", " ", "n", "e", "x", "t", " ", "m", "o", "n", "t", "h">>

RecordRevenue == <<"T", "e", "s", "l", "a", " ", "r", "e", "p", "o", "r", "t", "s", " ", "r", "e", "c", "o", "r", "d", " ", "r", "e", "v", "e", "n", "u", "e", " ", "t", "h", "i", "s", " ", "q", "u", "a", "r", "t", "e", "r">>

\* documents with every combination of what the strategies look for
ScrapeDocuments ==
    {Document(scripts, rows, api, cards, anchors, texts) :
        scripts \in {<<>>, <<ScriptObject(BeatsEarnings, -60000)>>,
                     <<ScriptObject(<<>>, 0), ScriptObject(BothUpgrade, 0)>>},
        rows \in {<<>>, TableRows, SymbolRows, <<TradingViewRow(<<"5", " ", "m", "i", "n", "u", "t", "e", "s", " ", "a", "g", "o">>, BeatsEarnings)>>},
        api \in {ApiDown, ApiItems(<<UnveilsPhone, MarketsClose>>)},
        cards \in {<<>>, <<Element(BothUpgrade, <<>>)>>},
        anchors \in {<<>>, <<Element(AnalystDay, <<"5", " ", "m", "i", "n", "u", "t", "e", "s", " ", "a", "g", "o">>)>>},
        texts \in {<<>>, <<MarketsClose, RecordRevenue>>}}

\* "AAPL analyst report <c>"
BusyTitle(c) ==
    <<"A", "A", "P", "L", " ", "a", "n", "a", "l", "y", "s", "t", " ",
      "r", "e", "p", "o", "r", "t", " ", c>>

\* a day with eight articles about AAPL, spread over the three sources
BusyTradingViewPage ==
    <<TradingViewRow(<<"5", " ", "m", "i", "n", "u", "t", "e", "s", " ", "a", "g", "o">>, BusyTitle("a")),
      TradingViewRow(<<"2", " ", "h", "o", "u", "r", "s", " ", "a", "g", "o">>, BusyTitle("b")),
      TradingViewRow(<<"1", "0", " ", "m", "i", "n", "u", "t", "e", "s", " ", "a", "g", "o">>, BusyTitle("c"))>>

BusyFinvizPage ==
    <<FinvizRow(DateText(TRUE, -86400000), BusyTitle("d"), <<"h", "t", "t", "p", "s", ":", "/", "/", "r">>),
      FinvizRow(DateText(FALSE, 0), BusyTitle("e"), <<"/", "n", "e", "w", "s", "/", "1">>)>>

BusyPolygonPage ==
    <<PolygonItem(BusyTitle("f"), <<>>, -3600000),
      PolygonItem(BusyTitle("g"), <<>>, -60000),
      PolygonItem(BusyTitle("h"), <<>>, -10800000)>>

\* what the sources answer on that day
BusyResponses(a) ==
    CASE a = "TradingView" -> {Timeout, Page(BusyTradingViewPage)}
      [] a = "Finviz" -> {Status(503), Page(BusyFinvizPage)}
      [] a = "Polygon" -> {Status(401), Page(BusyPolygonPage)}

----------------------------------------------------------------------------
(* NewsCollector.collectNews *)

CollectStep == 150000      \* granularity of the clock of the collector, ms
MaxCollectTicks == 2       \* the clock stops after this many steps
MaxCollectCalls == 2       \* calls of collectNews

LastCollectInstant == MaxCollectTicks * CollectStep

\* line 1159
cacheExpiry == 5 * 60 * 1000

NoEntry == [present |-> FALSE, data |-> <<>>, timestamp |-> 0]

Entry(data, t) == [present |-> TRUE, data |-> data, timestamp |-> t]

NoResult == [status |-> "none", data |-> <<>>, fromCache |-> FALSE, capturedAt |-> 0, returnedAt |-> 0]

\* lines 1156-1160; POLYGON_API_KEY may be set or not
InitCollect ==
    /\ polygonApiKey \in BOOLEAN
    /\ cache = [t \in Tickers |-> NoEntry]
    /\ colPc = "idle"
    /\ colTicker = "AAPL"
    /\ adapter = [a \in AdapterNames |-> NotStarted]
    /\ allNews = <<>>
    /\ colResult = NoResult
    /\ colCalls = 0

\* a test that serves an entry that is exactly five minutes old
CacheFreshInclusive(entry, t) == entry.present /\ t - entry.timestamp <= cacheExpiry

\* line 1166
CacheFresh(entry, t) == entry.present /\ t - entry.timestamp < cacheExpiry

\* a join that goes on as soon as one promise has settled
AnySettled(promises) ==
    \E a \in AdapterNames : promises[a].status \in {"fulfilled", "rejected"}

\* line 1175: Promise.allSettled
AllSettled(promises) ==
    \A a \in AdapterNames : promises[a].status \in {"fulfilled", "rejected"}

\* lines 1181-1197: what one settled promise adds to allNews
Contribution(promise) == IF promise.status = "fulfilled" THEN promise.value ELSE <<>>

\* lines 1181-1197
Merge(promises) ==
    Contribution(promises["TradingView"]) \o Contribution(promises["Finviz"])
        \o Contribution(promises["Polygon"])

\* lines 1201-1213
RelevantNews(list, ticker) == SelectSeq(list, LAMBDA article : CollectRelevant(article, ticker))

\* the clock advances by one step, between calls or before the first answer
\* of a call: every request has a timeout of 15000 ms, so the answers of one
\* call come within the same step
CollectTick ==
    /\ \A a \in AdapterNames : adapter[a].kind \notin {"timeout", "status", "garbled", "exception", "page"}
    /\ now + CollectStep <= LastCollectInstant
    /\ now' = now + CollectStep
    /\ UNCHANGED <<colVars, outsideCollect>>

\* lines 1162-1179: a fresh entry is returned; otherwise the three adapter
\* calls are made one after the other, each running up to its first await,
\* before collectNews awaits
CollectCall(ticker) ==
    /\ colPc = "idle"
    /\ colCalls < MaxCollectCalls
    /\ colCalls' = colCalls + 1
    /\ colTicker' = ticker
    /\ IF CacheFresh(cache[ticker], now)
       THEN /\ colPc' = "done"
            /\ colResult' = [status |-> "returned", data |-> cache[ticker].data, fromCache |-> TRUE,
                             capturedAt |-> cache[ticker].timestamp, returnedAt |-> now]
            /\ UNCHANGED adapter
       ELSE /\ colPc' = "awaiting"
            /\ adapter' = [a \in AdapterNames |->
                              IF a = "Polygon" /\ ~polygonApiKey THEN PolygonWithoutKey
                              ELSE Pending]
            /\ UNCHANGED colResult
    /\ UNCHANGED <<polygonApiKey, cache, allNews, now, outsideCollect>>

\* the instants of the clock
Instants == {k * CollectStep : k \in 0..MaxCollectTicks}

\* lines 1176-1178: what the call of adapter a for a ticker returns when its
\* request is answered at time t with a response
AdapterReturns ==
    [a \in AdapterNames |-> [ticker \in Tickers |-> [t \in Instants |->
        [response \in Responses(a) \cup BusyResponses(a) |->
            CASE a = "TradingView" -> scrapeTradingView(response, ticker, t)
              [] a = "Finviz" -> scrapeFinviz(response, ticker, t)
              [] a = "Polygon" -> fetchPolygonNews(response, ticker)]]]]

\* the request of one adapter ends and the adapter runs to its return
AdapterSettle(a, response) ==
    /\ colPc = "awaiting"
    /\ adapter[a].status = "pending"
    /\ adapter' = [adapter EXCEPT ![a] = AdapterReturns[a][colTicker][now][response]]
    /\ UNCHANGED <<polygonApiKey, cache, colPc, colTicker, allNews, colResult, colCalls,
                   now, outsideCollect>>

\* lines 1175-1225: the continuation after Promise.allSettled
CollectJoin ==
    /\ colPc = "awaiting"
    /\ AllSettled(adapter)
    /\ LET relevantNews == RelevantNews(Merge(adapter), colTicker)
           uniqueNews == removeDuplicates(relevantNews)
       IN /\ allNews' = Merge(adapter)
          /\ cache' = [cache EXCEPT ![colTicker] = Entry(uniqueNews, now)]
          /\ colResult' = [status |-> "returned", data |-> uniqueNews, fromCache |-> FALSE,
                           capturedAt |-> now, returnedAt |-> now]
    /\ colPc' = "done"
    /\ UNCHANGED <<polygonApiKey, colTicker, adapter, colCalls, now, outsideCollect>>

\* the caller has the list; the collector is ready for the next call
CollectReturn ==
    /\ colPc = "done"
    /\ colPc' = "idle"
    /\ adapter' = [a \in AdapterNames |-> NotStarted]
    /\ allNews' = <<>>
    /\ colResult' = NoResult
    /\ UNCHANGED <<polygonApiKey, cache, colTicker, colCalls, now, outsideCollect>>

----------------------------------------------------------------------------
(* NewsCollector.removeDuplicates, called on its own *)

MaxDedupLen == 3       \* longest list handed to removeDuplicates

\* titles without a letter or a digit
OnlyMarks == <<"!", "!", "!">>

OnlyDashes == <<"-", "-">>

\* articles with the titles above and distinct dates
DedupPool ==
    { Article(BeatsEarnings, BeatsEarnings, "TradingView", 5),
      Article(BeatsEarningsPlain, BeatsEarningsPlain, "Finviz", 7),
      Article(LongTitle("b"), <<>>, "Polygon", 3),
      Article(LongTitle("c"), <<>>, "Polygon", 4),
      Article(OnlyMarks, <<>>, "Polygon", 6),
      Article(OnlyDashes, <<>>, "Finviz", 2) }

DedupInputs == UNION {[1..n -> DedupPool] : n \in 0..MaxDedupLen}

\* no removeDuplicates call is under study
NoDedup ==
    /\ rdPc = "idle"
    /\ rdArticles = <<>>
    /\ rdUnique = <<>>

\* a caller holds a list to hand to removeDuplicates
InitDedup ==
    /\ rdPc = "idle"
    /\ rdArticles \in DedupInputs
    /\ rdUnique = <<>>

\* lines 1945-1964
RemoveDuplicatesCall ==
    /\ rdPc = "idle"
    /\ rdUnique' = removeDuplicates(rdArticles)
    /\ rdPc' = "done"
    /\ UNCHANGED <<rdArticles, outsideDedup>>

----------------------------------------------------------------------------
(* DataStorage.storeSummary and ProductionDataStorage.storeSummary *)

MaxStoreCalls == 8     \* calls of storeSummary in one behaviour

StorageImpls == {"file", "memory"}

\* summaries.slice(0, 7): dataStorage.js line 98, productionDataStorage.js line 121
MaxSummaries == 7

\* the entry unshift puts in front: the summary data with an id and a date;
\* n is the number of the call, which tells the stored summaries apart
StoredEntry(n) == [data |-> n]

\* unshift, then slice(0, 7)
UnshiftAndTrim(list, entry) == Slice(<<entry>> \o list, MaxSummaries)

\* no storage is in use
NoStore ==
    /\ stImpl = "memory"
    /\ summaries = [t \in Tickers |-> <<>>]
    /\ stPc = [c \in Callers |-> "idle"]
    /\ stTicker = [c \in Callers |-> "AAPL"]
    /\ stData = [c \in Callers |-> 0]
    /\ stRead = [c \in Callers |-> <<>>]
    /\ stLog = [t \in Tickers |-> <<>>]
    /\ stCalls = 0

\* a storage of either kind with nothing stored yet
InitStore ==
    /\ stImpl \in StorageImpls
    /\ summaries = [t \in Tickers |-> <<>>]
    /\ stPc = [c \in Callers |-> "idle"]
    /\ stTicker = [c \in Callers |-> "AAPL"]
    /\ stData = [c \in Callers |-> 0]
    /\ stRead = [c \in Callers |-> <<>>]
    /\ stLog = [t \in Tickers |-> <<>>]
    /\ stCalls = 0

\* storeSummary is called.  ProductionDataStorage (lines 106-128) changes the
\* list in memory before its first await; DataStorage (lines 78-88) starts
\* by reading the file of the ticker
StoreSummaryCall(c, t) ==
    /\ stPc[c] = "idle"
    /\ stCalls < MaxStoreCalls
    /\ stCalls' = stCalls + 1
    /\ stTicker' = [stTicker EXCEPT ![c] = t]
    /\ stData' = [stData EXCEPT ![c] = stCalls + 1]
    /\ IF stImpl = "memory"
       THEN /\ summaries' =
                [summaries EXCEPT ![t] = UnshiftAndTrim(@, StoredEntry(stCalls + 1))]
            /\ stLog' = [stLog EXCEPT ![t] = UnshiftAndTrim(@, StoredEntry(stCalls + 1))]
            /\ stPc' = [stPc EXCEPT ![c] = "writing"]
       ELSE /\ stPc' = [stPc EXCEPT ![c] = "reading"]
            /\ UNCHANGED <<summaries, stLog>>
    /\ UNCHANGED <<stImpl, stRead, outsideStore>>

\* dataStorage.js lines 83-99: readFile resolves (a missing file gives the
\* empty list), the new entry is put in front and the list is cut to 7
StoreSummaryRead(c) ==
    /\ stPc[c] = "reading"
    /\ stRead' = [stRead EXCEPT ![c] = UnshiftAndTrim(summaries[stTicker[c]], StoredEntry(stData[c]))]
    /\ stPc' = [stPc EXCEPT ![c] = "writing"]
    /\ UNCHANGED <<stImpl, summaries, stTicker, stData, stLog, stCalls, outsideStore>>

\* writeFile resolves and the call returns, its locals gone: dataStorage.js
\* line 101 replaces the file by the local list; productionDataStorage.js
\* lines 124-127 write a file that is never read back
StoreSummaryWrite(c) ==
    /\ stPc[c] = "writing"
    /\ IF stImpl = "file"
       THEN /\ summaries' = [summaries EXCEPT ![stTicker[c]] = stRead[c]]
            /\ stLog' = [stLog EXCEPT ![stTicker[c]] = UnshiftAndTrim(@, StoredEntry(stData[c]))]
       ELSE UNCHANGED <<summaries, stLog>>
    /\ stPc' = [stPc EXCEPT ![c] = "idle"]
    /\ stTicker' = [stTicker EXCEPT ![c] = "AAPL"]
    /\ stData' = [stData EXCEPT ![c] = 0]
    /\ stRead' = [stRead EXCEPT ![c] = <<>>]
    /\ UNCHANGED <<stImpl, stCalls, outsideStore>>

----------------------------------------------------------------------------
(* processTickerNews, index.js: collectNews, then selectTopArticles on the list *)

\* index.js lines 134-139: collectNews returned an empty list and
\* processTickerNews returns
ProcessNoNews ==
    /\ colPc = "done"
    /\ colResult.data = <<>>
    /\ CollectReturn

\* index.js line 148: the list collectNews returned, which is the array held
\* in the cache entry of the ticker, is handed to selectTopArticles
ProcessSelectCall ==
    /\ colPc = "done"
    /\ colResult.data # <<>>
    /\ SelectCall(cache[colTicker].data)

\* the generative call of that selectTopArticles call raises: the array it
\* sorts in place is the one in the cache entry
ProcessSelectFail ==
    /\ colPc = "done"
    /\ SelectFailSorts
    /\ cache' = [cache EXCEPT ![colTicker].data = SortBySource(selList)]
    /\ UNCHANGED <<polygonApiKey, colPc, colTicker, adapter, allNews, colResult, colCalls>>
    /\ UNCHANGED <<genVars, rdVars, stVars, scVars, hVars, tkVars>>

\* index.js lines 151-177: the summary is generated and stored, which reads
\* the lists and changes none of them, and processTickerNews returns
ProcessFinish ==
    /\ colPc = "done"
    /\ selPc = "done"
    /\ selPc' = "idle"
    /\ selArg' = <<>>
    /\ selList' = <<>>
    /\ selResult' = <<>>
    /\ selGenCalls' = 0
    /\ selReply' = [kind |-> "none", text |-> <<>>]
    /\ colPc' = "idle"
    /\ adapter' = [a \in AdapterNames |-> NotStarted]
    /\ allNews' = <<>>
    /\ colResult' = NoResult
    /\ UNCHANGED <<selImpl, polygonApiKey, cache, colTicker, colCalls>>
    /\ UNCHANGED <<aiVars, genVars, rdVars, stVars, scVars, hVars, tkVars>>

----------------------------------------------------------------------------
(* NewsCollector.scrapeTradingView, called on its own *)

Stages == {StageOrder[k] : k \in 1..Len(StageOrder)}

\* the stage after the k-th
StageAfter(k) == IF k < Len(StageOrder) THEN StageOrder[k + 1] ELSE "done"

\* no scrapeTradingView call is under study
NoScrape ==
    /\ scPc = "idle"
    /\ scDoc = RowsDocument(<<>>)
    /\ scTicker = "AAPL"
    /\ scNews = <<>>
    /\ scRan = {}
    /\ scYield = [stage \in Stages |-> <<>>]
    /\ scResult = NotStarted

\* a caller is about to scrape a ticker, and the site is about to answer
InitScrape ==
    /\ scPc = "idle"
    /\ scDoc \in ScrapeDocuments
    /\ scTicker \in Tickers
    /\ scNews = <<>>
    /\ scRan = {}
    /\ scYield = [stage \in Stages |-> <<>>]
    /\ scResult = NotStarted

\* lines 1234-1259: the request is answered with status 200 and the document
\* is loaded
ScrapeCall ==
    /\ scPc = "idle"
    /\ scPc' = StageOrder[1]
    /\ scResult' = Pending
    /\ UNCHANGED <<scDoc, scTicker, scNews, scRan, scYield, outsideScrape>>

\* the k-th strategy (Method 1, lines 1262-1330; Method 2, 1335-1375; Method 3,
\* 1377-1394; Strategy 1, 1399-1466; Strategy 2, 1468-1520; Strategy 3,
\* 1522-1557): it is skipped, or it examines the document and adds what it
\* finds; an exception ends the call in the catch block, lines 1564-1567;
\* after the last strategy the list is returned, line 1562
ScrapeStage(k) ==
    /\ scPc = StageOrder[k]
    /\ IF ~StageRuns(StageOrder[k], scNews)
       THEN /\ scPc' = StageAfter(k)
            /\ scResult' = IF k = Len(StageOrder) THEN Fulfilled(scNews, "page") ELSE scResult
            /\ UNCHANGED <<scNews, scRan, scYield>>
       ELSE LET outcome == StageOutcome(StageOrder[k], scDoc, scTicker, now, scNews)
            IN /\ scRan' = scRan \cup {StageOrder[k]}
               /\ IF outcome.status = "rejected"
                  THEN /\ scPc' = "done"
                       /\ scResult' = CatchReturnsEmpty(outcome)
                       /\ UNCHANGED <<scNews, scYield>>
                  ELSE /\ scPc' = StageAfter(k)
                       /\ scNews' = outcome.value
                       /\ scYield' = [scYield EXCEPT ![StageOrder[k]] =
                                         SubSeq(outcome.value, Len(scNews) + 1, Len(outcome.value))]
                       /\ scResult' = IF k = Len(StageOrder) THEN Fulfilled(outcome.value, "page")
                                      ELSE scResult
    /\ UNCHANGED <<scDoc, scTicker, outsideScrape>>

----------------------------------------------------------------------------
(* The serverless handler of api/index.js on ProductionDataStorage.          *)
(* The runtime has one thread.  A request, the end of a file or network      *)
(* operation and a timer start a task; the continuation of an await on a     *)
(* promise that is already settled is a microtask, and no task starts while  *)
(* a microtask is waiting.  collectNews and generateSummary are taken to     *)
(* wait for the network, so at most one request or run has a microtask       *)
(* waiting at a time.                                                        *)

NumRequests == 2       \* requests the handler serves at a time
MaxRequests == 2       \* requests in one behaviour
MaxRuns == 4           \* background runs under way at a time

Requests == 1..NumRequests

Runs == 1..MaxRuns

\* productionDataStorage.js line 13: the tickers of a new storage, those of
\* them that are in Tickers
DefaultTickers == <<"AAPL", "TSLA">>

ElementsOf(list) == {list[i] : i \in 1..Len(list)}

\* tickers.splice(index, 1), lines 87-90
Without(list, t) == SelectSeq(list, LAMBDA x : x # t)

\* a stored summary.  The copy that {...summaryData} makes shares the meta
\* object of the summary it copies, and storeSummary puts it right above that
\* summary: sharesMeta says that a summary shares its meta object with the
\* one below it
Summary(isProcessing, processingStatus, sharesMeta) ==
    [isProcessing |-> isProcessing, processingStatus |-> processingStatus, sharesMeta |-> sharesMeta]

\* the places of a list whose summaries share the meta object of the first
RECURSIVE SharingFirst(_, _)
SharingFirst(list, i) ==
    IF i < Len(list) /\ list[i].sharesMeta THEN {i} \cup SharingFirst(list, i + 1) ELSE {i}

\* existingSummary[0].meta.processingStatus = status, on a list that is not
\* empty: the assignment shows in every summary that shares the meta object
SetProcessingStatus(list, status) ==
    [i \in 1..Len(list) |->
        IF i \in SharingFirst(list, 1) THEN [list[i] EXCEPT !.processingStatus = status]
        ELSE list[i]]

\* existingSummary[0].isProcessing = false
ClearProcessing(list) == [list EXCEPT ![1].isProcessing = FALSE]

\* lines 71-75: the status of the latest summary is set in place and
\* storeSummary is called with that summary
MarkGenerating(list) ==
    LET marked == SetProcessingStatus(list, "generating_ai_summary")
    IN UnshiftAndTrim(marked, [marked[1] EXCEPT !.sharesMeta = TRUE])

\* lines 124-130, the same in the catch block
MarkError(list) ==
    LET marked == SetProcessingStatus(ClearProcessing(list), "error")
    IN UnshiftAndTrim(marked, [marked[1] EXCEPT !.sharesMeta = TRUE])

IdleRequest == [pc |-> "idle", kind |-> "none", ticker |-> "AAPL", code |-> 0, removed |-> FALSE]

FreeRun == [pc |-> "free", ticker |-> "AAPL", batch |-> 0]

\* a request or run whose continuation is a waiting microtask
ReadyRequest(q) == req[q].pc \in {"auto", "flag", "route", "spawn", "removed"}

ReadyRun(r) == run[r].pc = "started"

\* a task can start
TaskCanStart == (\A q \in Requests : ~ReadyRequest(q)) /\ (\A r \in Runs : ~ReadyRun(r))

FreeRuns(runs) == {r \in Runs : runs[r].pc = "free"}

\* the calls processTickerNewsAsync(ticker) or processAISummaryAsync(ticker,
\* newsData), none of them awaited, for the tickers of a list: each runs up to
\* its first await
RECURSIVE StartRuns(_, _, _, _)
StartRuns(runs, list, at, batch) ==
    IF list = <<>> THEN runs
    ELSE StartRuns([runs EXCEPT ![Min(FreeRuns(runs))] =
                       [pc |-> at, ticker |-> Head(list), batch |-> batch]],
                   Tail(list), at, batch)

\* the runs a request of a kind may start after initializeStorage
KindNeed(kind) ==
    CASE kind = "refreshAll" -> Cardinality(Tickers)
      [] kind \in {"add", "refresh"} -> 1
      [] OTHER -> 0

\* the runs a request may still start
Demand(q) ==
    IF req[q].pc \in {"idle", "responded"} THEN 0
    ELSE KindNeed(req[q].kind)
            + (IF req[q].pc \in {"initIO", "auto"} THEN Cardinality(Tickers) ELSE 0)

\* the runs the requests 1..n may still start
RECURSIVE TotalDemand(_)
TotalDemand(n) == IF n = 0 THEN 0 ELSE Demand(n) + TotalDemand(n - 1)

\* no request is served
NoHandler ==
    /\ isProduction = TRUE
    /\ initialized = FALSE
    /\ initRuns = 0
    /\ memTickers = DefaultTickers
    /\ memSummaries = [t \in Tickers |-> <<>>]
    /\ req = [q \in Requests |-> IdleRequest]
    /\ run = [r \in Runs |-> FreeRun]
    /\ nextBatch = 0
    /\ hRequests = 0
    /\ aiStarted = {}

\* the module has been loaded, lines 7-12, in production or in development
InitHandler ==
    /\ isProduction \in BOOLEAN
    /\ initialized = FALSE
    /\ initRuns = 0
    /\ memTickers = DefaultTickers
    /\ memSummaries = [t \in Tickers |-> <<>>]
    /\ req = [q \in Requests |-> IdleRequest]
    /\ run = [r \in Runs |-> FreeRun]
    /\ nextBatch = 0
    /\ hRequests = 0
    /\ aiStarted = {}

\* the first request has been answered and the runs it started found no news
InitServing ==
    /\ isProduction \in BOOLEAN
    /\ initialized = TRUE
    /\ initRuns = 1
    /\ memTickers = DefaultTickers
    /\ memSummaries = [t \in Tickers |-> <<>>]
    /\ req = [q \in Requests |-> IdleRequest]
    /\ run = [r \in Runs |-> FreeRun]
    /\ nextBatch = 1
    /\ hRequests = 0
    /\ aiStarted = {}

\* lines 156-170 and 13-16: a request arrives and the handler runs up to its
\* await of initializeStorage, which returns at once when the flag is set
\* and awaits dataStorage.init() when it is not; init returns at once in
\* production and works on the file system in development
RequestArrives(q, kind, t) ==
    /\ TaskCanStart
    /\ req[q].pc \in {"idle", "responded"}
    /\ \A x \in Requests : req[x].pc \in {"idle", "responded"} => q <= x
    /\ hRequests < MaxRequests
    /\ Cardinality(FreeRuns(run))
          >= TotalDemand(NumRequests) + KindNeed(kind) + (IF initialized THEN 0 ELSE Cardinality(Tickers))
    /\ hRequests' = hRequests + 1
    /\ req' = [req EXCEPT ![q] =
                  [pc |-> IF initialized THEN "route" ELSE IF isProduction THEN "auto" ELSE "initIO",
                   kind |-> kind, ticker |-> t, code |-> 0, removed |-> FALSE]]
    /\ UNCHANGED <<isProduction, initialized, initRuns, memTickers, memSummaries, run,
                   nextBatch, aiStarted, outsideHandler>>

\* productionDataStorage.js lines 29-52: the file operations of init end;
\* init catches what they raise
StorageInitEnds(q) ==
    /\ TaskCanStart
    /\ req[q].pc = "initIO"
    /\ req' = [req EXCEPT ![q].pc = "auto"]
    /\ UNCHANGED <<isProduction, initialized, initRuns, memTickers, memSummaries, run,
                   nextBatch, hRequests, aiStarted, outsideHandler>>

\* lines 27-52: autoProcessDefaultTickers starts processTickerNewsAsync,
\* without awaiting it, for every ticker that has no summary (a summary older
\* than a day does not occur within one behaviour)
AutoProcess(q) ==
    /\ req[q].pc = "auto"
    /\ run' = StartRuns(run, SelectSeq(memTickers, LAMBDA t : memSummaries[t] = <<>>),
                        "collecting", nextBatch + 1)
    /\ nextBatch' = nextBatch + 1
    /\ initRuns' = initRuns + 1
    /\ req' = [req EXCEPT ![q].pc = "flag"]
    /\ UNCHANGED <<isProduction, initialized, memTickers, memSummaries, hRequests,
                   aiStarted, outsideHandler>>

\* line 22, and the handler goes on to its routes
SetInitialized(q) ==
    /\ req[q].pc = "flag"
    /\ initialized' = TRUE
    /\ req' = [req EXCEPT ![q].pc = "route"]
    /\ UNCHANGED <<isProduction, initRuns, memTickers, memSummaries, run, nextBatch,
                   hRequests, aiStarted, outsideHandler>>

\* GET /tickers, lines 213-216
RouteGetTickers(q) ==
    /\ req[q].pc = "route"
    /\ req[q].kind = "tickers"
    /\ req' = [req EXCEPT ![q].pc = "responded", ![q].code = 200]
    /\ UNCHANGED <<isProduction, initialized, initRuns, memTickers, memSummaries, run,
                   nextBatch, hRequests, aiStarted, outsideHandler>>

\* POST /refresh-all, lines 418-435: processTickerNewsAsync is called for
\* every ticker, none of the calls is awaited, and the request is answered
RouteRefreshAll(q) ==
    /\ req[q].pc = "route"
    /\ req[q].kind = "refreshAll"
    /\ run' = StartRuns(run, memTickers, "collecting", nextBatch + 1)
    /\ nextBatch' = nextBatch + 1
    /\ req' = [req EXCEPT ![q].pc = "responded", ![q].code = 200]
    /\ UNCHANGED <<isProduction, initialized, initRuns, memTickers, memSummaries,
                   hRequests, aiStarted, outsideHandler>>

\* POST /tickers, lines 301-315, with addTicker of productionDataStorage.js
\* lines 64-82: the ticker is put in the list; in development the list is
\* written to its file; then collectNews is called
RouteAddTicker(q) ==
    /\ req[q].pc = "route"
    /\ req[q].kind = "add"
    /\ LET absent == req[q].ticker \notin ElementsOf(memTickers)
       IN /\ memTickers' = IF absent THEN Append(memTickers, req[q].ticker) ELSE memTickers
          /\ req' = [req EXCEPT ![q].pc = IF absent /\ ~isProduction THEN "addWrite" ELSE "collecting"]
    /\ UNCHANGED <<isProduction, initialized, initRuns, memSummaries, run, nextBatch,
                   hRequests, aiStarted, outsideHandler>>

\* POST /refresh/:ticker, lines 372-377
RouteRefresh(q) ==
    /\ req[q].pc = "route"
    /\ req[q].kind = "refresh"
    /\ req' = [req EXCEPT ![q].pc = "collecting"]
    /\ UNCHANGED <<isProduction, initialized, initRuns, memTickers, memSummaries, run,
                   nextBatch, hRequests, aiStarted, outsideHandler>>

\* DELETE /tickers/:ticker, lines 470-474, with removeTicker of
\* productionDataStorage.js lines 84-104: a listed ticker is taken out of the
\* list with its summaries; in development the list is written to its file
RouteDelete(q) ==
    /\ req[q].pc = "route"
    /\ req[q].kind = "delete"
    /\ IF req[q].ticker \in ElementsOf(memTickers)
       THEN /\ memTickers' = Without(memTickers, req[q].ticker)
            /\ memSummaries' = [memSummaries EXCEPT ![req[q].ticker] = <<>>]
            /\ req' = [req EXCEPT ![q].pc = IF isProduction THEN "removed" ELSE "removeWrite",
                                  ![q].removed = TRUE]
       ELSE /\ req' = [req EXCEPT ![q].pc = "removed"]
            /\ UNCHANGED <<memTickers, memSummaries>>
    /\ UNCHANGED <<isProduction, initialized, initRuns, run, nextBatch, hRequests,
                   aiStarted, outsideHandler>>

\* line 475: ProductionDataStorage has no method removeSummary, the call
\* raises a TypeError, and the catch of lines 481-487 answers 500
RemoveSummaryRaises(q) ==
    /\ req[q].pc = "removed"
    /\ req' = [req EXCEPT ![q].pc = "responded", ![q].code = 500]
    /\ UNCHANGED <<isProduction, initialized, initRuns, memTickers, memSummaries, run,
                   nextBatch, hRequests, aiStarted, outsideHandler>>

\* lines 315-341 and 377-402: collectNews returns.  With news the
\* preliminary summary is stored (productionDataStorage.js lines 106-128):
\* the list in memory gets it at once, and in development the list is then
\* written to its file
RequestCollected(q, found) ==
    /\ TaskCanStart
    /\ req[q].pc = "collecting"
    /\ IF found
       THEN /\ memSummaries' =
                  [memSummaries EXCEPT ![req[q].ticker] =
                      UnshiftAndTrim(@, Summary(TRUE, IF req[q].kind = "add" THEN "collecting_news"
                                                      ELSE "refreshing_news", FALSE))]
            /\ req' = [req EXCEPT ![q].pc = IF isProduction THEN "spawn" ELSE "prelimWrite"]
       ELSE /\ req' = [req EXCEPT ![q].pc = "responded", ![q].code = 200]
            /\ UNCHANGED memSummaries
    /\ UNCHANGED <<isProduction, initialized, initRuns, memTickers, run, nextBatch, hRequests,
                   aiStarted, outsideHandler>>

\* lines 343-353 and 404-410: processAISummaryAsync is called, not awaited,
\* and the request is answered
StartAIProcessing(q) ==
    /\ req[q].pc = "spawn"
    /\ run' = StartRuns(run, <<req[q].ticker>>, "started", 0)
    /\ aiStarted' = aiStarted \cup {req[q].ticker}
    /\ req' = [req EXCEPT ![q].pc = "responded", ![q].code = 200]
    /\ UNCHANGED <<isProduction, initialized, initRuns, memTickers, memSummaries,
                   nextBatch, hRequests, outsideHandler>>

\* a writeFile of the development mode ends, well or with an exception.
\* addTicker and removeTicker pass the exception on and the handler answers
\* 500 (lines 497-503, 481-487); after removeTicker has returned,
\* removeSummary raises; the exception of storeSummary is caught at lines
\* 361-368 (answer 200) or 411-414 (answer 500), and no AI processing starts
RequestWriteEnds(q, ok) ==
    /\ TaskCanStart
    /\ req[q].pc \in {"addWrite", "prelimWrite", "removeWrite"}
    /\ IF req[q].pc = "prelimWrite" /\ ok
       THEN /\ run' = StartRuns(run, <<req[q].ticker>>, "started", 0)
            /\ aiStarted' = aiStarted \cup {req[q].ticker}
       ELSE UNCHANGED <<run, aiStarted>>
    /\ req' = [req EXCEPT
                  ![q].pc = IF req[q].pc = "addWrite" /\ ok THEN "collecting" ELSE "responded",
                  ![q].code = CASE req[q].pc = "addWrite" -> IF ok THEN 0 ELSE 500
                                [] req[q].pc = "removeWrite" -> 500
                                [] OTHER -> IF ok \/ req[q].kind = "add" THEN 200 ELSE 500]
    /\ UNCHANGED <<isProduction, initialized, initRuns, memTickers, memSummaries,
                   nextBatch, hRequests, outsideHandler>>

\* processTickerNewsAsync, lines 135-153: collectNews returns; without news
\* the run ends, with news it goes on in processAISummaryAsync
RunCollected(r, found) ==
    /\ TaskCanStart
    /\ run[r].pc = "collecting"
    /\ run' = [run EXCEPT ![r] = IF found THEN [@ EXCEPT !.pc = "started"] ELSE FreeRun]
    /\ UNCHANGED <<isProduction, initialized, initRuns, memTickers, memSummaries, req,
                   nextBatch, hRequests, aiStarted, outsideHandler>>

\* processAISummaryAsync, lines 55-78: the news history is stored and read;
\* when the ticker has a summary its status is set and the summary is stored
\* again; then generateSummary is called
RunMarksGenerating(r) ==
    /\ run[r].pc = "started"
    /\ IF memSummaries[run[r].ticker] = <<>>
       THEN /\ run' = [run EXCEPT ![r].pc = "summarizing"]
            /\ UNCHANGED memSummaries
       ELSE /\ memSummaries' = [memSummaries EXCEPT ![run[r].ticker] = MarkGenerating(@)]
            /\ run' = [run EXCEPT ![r].pc = IF isProduction THEN "summarizing" ELSE "markWrite"]
    /\ UNCHANGED <<isProduction, initialized, initRuns, memTickers, req, nextBatch, hRequests,
                   aiStarted, outsideHandler>>

\* lines 78-114: generateSummary returns and the final summary is stored; it
\* has a meta object of its own
RunSummaryReturns(r) ==
    /\ TaskCanStart
    /\ run[r].pc = "summarizing"
    /\ memSummaries' = [memSummaries EXCEPT ![run[r].ticker] =
                           UnshiftAndTrim(@, Summary(FALSE, "complete", FALSE))]
    /\ run' = [run EXCEPT ![r] = IF isProduction THEN FreeRun ELSE [@ EXCEPT !.pc = "finalWrite"]]
    /\ UNCHANGED <<isProduction, initialized, initRuns, memTickers, req, nextBatch, hRequests,
                   aiStarted, outsideHandler>>

\* a writeFile of storeSummary ends in development.  An exception in the try
\* block takes the run to the catch of lines 120-131: when the ticker has a
\* summary it is marked and stored again; an exception in the catch block
\* ends the run
RunWriteEnds(r, ok) ==
    /\ TaskCanStart
    /\ run[r].pc \in {"markWrite", "finalWrite", "errWrite"}
    /\ IF run[r].pc = "errWrite" \/ (run[r].pc = "finalWrite" /\ ok)
       THEN /\ run' = [run EXCEPT ![r] = FreeRun]
            /\ UNCHANGED memSummaries
       ELSE IF ok
       THEN /\ run' = [run EXCEPT ![r].pc = "summarizing"]
            /\ UNCHANGED memSummaries
       ELSE IF memSummaries[run[r].ticker] = <<>>
       THEN /\ run' = [run EXCEPT ![r] = FreeRun]
            /\ UNCHANGED memSummaries
       ELSE /\ memSummaries' = [memSummaries EXCEPT ![run[r].ticker] = MarkError(@)]
            /\ run' = [run EXCEPT ![r].pc = "errWrite"]
    /\ UNCHANGED <<isProduction, initialized, initRuns, memTickers, req, nextBatch, hRequests,
                   aiStarted, outsideHandler>>

----------------------------------------------------------------------------
(* DataStorage.addTicker and removeTicker, dataStorage.js, on tickers.json *)

MaxTickerCalls == 4    \* calls of addTicker and removeTicker in one behaviour

\* no caller changes the ticker list
NoTickerCalls ==
    /\ tickersFile = <<>>
    /\ tkPc = [c \in Callers |-> "idle"]
    /\ tkOp = [c \in Callers |-> "add"]
    /\ tkTicker = [c \in Callers |-> "AAPL"]
    /\ tkRead = [c \in Callers |-> <<>>]
    /\ tkAdded = {}
    /\ tkRemoved = {}
    /\ tkCalls = 0

\* lines 47-49 and 62-64: addTicker or removeTicker is called and awaits
\* getTickers, which awaits readFile
TickerCall(c, o, t) ==
    /\ tkPc[c] = "idle"
    /\ tkCalls < MaxTickerCalls
    /\ tkCalls' = tkCalls + 1
    /\ tkPc' = [tkPc EXCEPT ![c] = "reading"]
    /\ tkOp' = [tkOp EXCEPT ![c] = o]
    /\ tkTicker' = [tkTicker EXCEPT ![c] = t]
    /\ tkRemoved' = IF o = "remove" THEN tkRemoved \cup {t} ELSE tkRemoved
    /\ UNCHANGED <<tickersFile, tkRead, tkAdded, outsideTickers>>

\* lines 49-55 and 64-70: readFile resolves and the local list is changed;
\* when there is nothing to change the call returns without writing
TickerRead(c) ==
    /\ tkPc[c] = "reading"
    /\ LET listed == tkTicker[c] \in ElementsOf(tickersFile)
           writes == IF tkOp[c] = "add" THEN ~listed ELSE listed
       IN /\ tkRead' = [tkRead EXCEPT ![c] =
                           IF ~writes THEN <<>>
                           ELSE IF tkOp[c] = "add" THEN Append(tickersFile, tkTicker[c])
                           ELSE Without(tickersFile, tkTicker[c])]
          /\ tkPc' = [tkPc EXCEPT ![c] = IF writes THEN "writing" ELSE "idle"]
          /\ tkAdded' = IF ~writes /\ tkOp[c] = "add" THEN tkAdded \cup {tkTicker[c]} ELSE tkAdded
    /\ UNCHANGED <<tickersFile, tkOp, tkTicker, tkRemoved, tkCalls, outsideTickers>>

\* lines 55 and 70: writeFile replaces the file by the local list, and the
\* call returns
TickerWrite(c) ==
    /\ tkPc[c] = "writing"
    /\ tickersFile' = tkRead[c]
    /\ tkRead' = [tkRead EXCEPT ![c] = <<>>]
    /\ tkPc' = [tkPc EXCEPT ![c] = "idle"]
    /\ tkAdded' = IF tkOp[c] = "add" THEN tkAdded \cup {tkTicker[c]} ELSE tkAdded
    /\ UNCHANGED <<tkOp, tkTicker, tkRemoved, tkCalls, outsideTickers>>

----------------------------------------------------------------------------
(* Specifications *)

NextRL ==
    \/ Tick
    \/ \E c \in Callers, o \in {"select", "summary"} : EnterRateLimit(c, o)
    \/ \E c \in Callers : WakeRateLimit(c)
    \/ \E c \in Callers : StartGenerativeCall(c)

\* a new AIProcessor, no call under way
InitRL == InitAI /\ InitSel /\ InitGen /\ InitCollect /\ polygonApiKey /\ NoDedup /\ NoStore /\ NoScrape /\ NoHandler /\ NoTickerCalls

SpecRL == InitRL /\ [][NextRL]_vars

\* the timers of the runtime fire and the clock advances
FairSpecRL ==
    /\ SpecRL
    /\ WF_vars(Tick)
    /\ \A c \in Callers : WF_vars(WakeRateLimit(c))
    /\ \A c \in Callers : WF_vars(StartGenerativeCall(c))

NextSel ==
    \/ CallTick
    \/ \E articles \in CandidateLists : SelectCall(articles)
    \/ SelectWake
    \/ SelectStart
    \/ \E text \in SelectorReplies : SelectReply(text)
    \/ SelectFail
    \/ \E articles \in CandidateLists : MockSelectCall(articles)
    \/ SelectReturn

\* an AIProcessor that has admitted none, 14 or 15 calls in its first window
InitSelSpec == InitCallRL /\ InitSel /\ InitGen /\ InitCollect /\ polygonApiKey /\ NoDedup /\ NoStore /\ NoScrape /\ NoHandler /\ NoTickerCalls

SpecSel == InitSelSpec /\ [][NextSel]_vars

NextGen ==
    \/ CallTick
    \/ \E ticker \in Tickers, articles \in ArticlesArgs, history \in HistoryArgs :
          GenerateCall(ticker, articles, history)
    \/ GenerateWake
    \/ GenerateStart
    \/ \E text \in GenReplies : GenerateReply(text)
    \/ GenerateFail
    \/ GenerateReturn

\* an AIProcessor that has admitted none, 14 or 15 calls in its first window
InitGenSpec == InitCallRL /\ InitSel /\ InitGen /\ InitCollect /\ polygonApiKey /\ NoDedup /\ NoStore /\ NoScrape /\ NoHandler /\ NoTickerCalls

SpecGen == InitGenSpec /\ [][NextGen]_vars

NextCollect ==
    \/ CollectTick
    \/ \E ticker \in Tickers : CollectCall(ticker)
    \/ \E a \in AdapterNames : \E response \in Responses(a) : AdapterSettle(a, response)
    \/ CollectJoin
    \/ CollectReturn

\* a new NewsCollector, next to an AIProcessor that is not called
InitCollectSpec == InitAI /\ InitSel /\ InitGen /\ InitCollect /\ NoDedup /\ NoStore /\ NoScrape /\ NoHandler /\ NoTickerCalls

SpecCollect == InitCollectSpec /\ [][NextCollect]_vars

NextDedup == RemoveDuplicatesCall

\* a NewsCollector that is asked to deduplicate one list
InitDedupSpec ==
    InitAI /\ InitSel /\ InitGen /\ InitCollect /\ polygonApiKey /\ InitDedup /\ NoStore /\ NoScrape /\ NoHandler /\ NoTickerCalls

SpecDedup == InitDedupSpec /\ [][NextDedup]_vars

NextStore ==
    \/ \E c \in Callers, t \in Tickers : StoreSummaryCall(c, t)
    \/ \E c \in Callers : StoreSummaryRead(c)
    \/ \E c \in Callers : StoreSummaryWrite(c)

\* a storage with nothing stored, used by concurrent request handlers
InitStoreSpec ==
    InitAI /\ InitSel /\ InitGen /\ InitCollect /\ polygonApiKey /\ NoDedup /\ InitStore /\ NoScrape /\ NoHandler /\ NoTickerCalls

SpecStore == InitStoreSpec /\ [][NextStore]_vars

NextPipeline ==
    \/ CollectTick
    \/ CollectCall("AAPL")
    \/ \E a \in AdapterNames : \E response \in BusyResponses(a) : AdapterSettle(a, response)
    \/ CollectJoin
    \/ ProcessNoNews
    \/ ProcessSelectCall
    \/ SelectWake
    \/ SelectStart
    \/ \E text \in SelectorReplies : SelectReply(text)
    \/ ProcessSelectFail
    \/ ProcessFinish

\* a new server: an AIProcessor with a full or empty window, a collector with
\* an empty cache
InitPipeline ==
    InitCallRL /\ InitSel /\ InitGen /\ InitCollect /\ NoDedup /\ NoStore /\ NoScrape /\ NoHandler /\ NoTickerCalls

SpecPipeline == InitPipeline /\ [][NextPipeline]_vars

NextScrape ==
    \/ ScrapeCall
    \/ \E k \in 1..Len(StageOrder) : ScrapeStage(k)

InitScrapeSpec ==
    InitAI /\ InitSel /\ InitGen /\ InitCollect /\ polygonApiKey /\ NoDedup /\ NoStore /\ InitScrape /\ NoHandler /\ NoTickerCalls

SpecScrape == InitScrapeSpec /\ [][NextScrape]_vars

\* the first requests of a process: they read the ticker list or refresh
\* every ticker, and no write of a file fails
NextBoot ==
    \/ \E q \in Requests, kind \in {"tickers", "refreshAll"} : RequestArrives(q, kind, "AAPL")
    \/ \E q \in Requests : StorageInitEnds(q)
    \/ \E q \in Requests : AutoProcess(q)
    \/ \E q \in Requests : SetInitialized(q)
    \/ \E q \in Requests : RouteGetTickers(q)
    \/ \E q \in Requests : RouteRefreshAll(q)
    \/ \E r \in Runs, found \in BOOLEAN : RunCollected(r, found)
    \/ \E r \in Runs : RunMarksGenerating(r)
    \/ \E r \in Runs : RunSummaryReturns(r)
    \/ \E r \in Runs : RunWriteEnds(r, TRUE)

InitBootSpec ==
    /\ InitAI /\ InitSel /\ InitGen /\ InitCollect /\ polygonApiKey /\ NoDedup /\ NoStore /\ NoScrape
    /\ InitHandler /\ NoTickerCalls

SpecBoot == InitBootSpec /\ [][NextBoot]_vars

\* requests that add, refresh and delete tickers
NextHandler ==
    \/ \E q \in Requests, kind \in {"add", "refresh", "delete"}, t \in Tickers :
          RequestArrives(q, kind, t)
    \/ \E q \in Requests : RouteAddTicker(q)
    \/ \E q \in Requests : RouteRefresh(q)
    \/ \E q \in Requests : RouteDelete(q)
    \/ \E q \in Requests : RemoveSummaryRaises(q)
    \/ \E q \in Requests, found \in BOOLEAN : RequestCollected(q, found)
    \/ \E q \in Requests : StartAIProcessing(q)
    \/ \E q \in Requests, ok \in BOOLEAN : RequestWriteEnds(q, ok)
    \/ \E r \in Runs : RunMarksGenerating(r)
    \/ \E r \in Runs : RunSummaryReturns(r)
    \/ \E r \in Runs, ok \in BOOLEAN : RunWriteEnds(r, ok)

InitHandlerSpec ==
    /\ InitAI /\ InitSel /\ InitGen /\ InitCollect /\ polygonApiKey /\ NoDedup /\ NoStore /\ NoScrape
    /\ InitServing /\ NoTickerCalls

SpecHandler == InitHandlerSpec /\ [][NextHandler]_vars

NextTickers ==
    \/ \E c \in Callers, o \in {"add", "remove"}, t \in Tickers : TickerCall(c, o, t)
    \/ \E c \in Callers : TickerRead(c)
    \/ \E c \in Callers : TickerWrite(c)

\* a DataStorage with an empty ticker list, used by concurrent request handlers
InitTickersSpec ==
    /\ InitAI /\ InitSel /\ InitGen /\ InitCollect /\ polygonApiKey /\ NoDedup /\ NoStore /\ NoScrape
    /\ NoHandler /\ NoTickerCalls

SpecTickers == InitTickersSpec /\ [][NextTickers]_vars

----------------------------------------------------------------------------
(* Properties of the rate limiter *)

\* the generative calls started in the 60 s that begin with the i-th start
StartsInWindowFrom(i) ==
    {j \in 1..Len(starts) : starts[j] >= starts[i] /\ starts[j] < starts[i] + RateWindowMs}

\* C1: in every interval of 60 seconds, whatever its start point, at most 15
\* generative-service calls admitted by rateLimit start (selector and
\* summarizer together).
C1_RollingWindowAtMost15 ==
    \A i \in 1..Len(starts) : Cardinality(StartsInWindowFrom(i)) <= maxRequestsPerMinute

\* a caller leaves the wait of rateLimit in this step
ResumesFromWait(c) == pc[c] = "waiting" /\ pc'[c] = "admitted"

\* C2: a caller that finds 15 calls admitted in the current window is
\* suspended, not failed: it stays suspended until 60 seconds have passed since
\* the window start it saw, then the counter is reset and counts this call and
\* the call is admitted; every suspended caller is eventually admitted.
C2_SuspendedUntilWindowElapsed ==
    /\ [][\A c \in Callers :
            /\ (pc[c] = "idle" /\ pc'[c] # "idle" /\ requestCount >= maxRequestsPerMinute
                   /\ now - lastRequestTime < RateWindowMs)
                  => (pc'[c] = "waiting" /\ winStart'[c] = lastRequestTime)
            /\ (pc[c] = "waiting" /\ pc'[c] # "waiting")
                  => ResumesFromWait(c)
            /\ ResumesFromWait(c)
                  => (now >= winStart[c] + RateWindowMs /\ requestCount' = 1
                        /\ lastRequestTime' = now)]_vars
    /\ \A c \in Callers : (pc[c] = "waiting") ~> (pc[c] = "admitted")

\* C2 witness: a caller was suspended with the counter at 15, the window has
\* elapsed and the caller has been admitted with the counter reset
C2_Witness ==
    \E c \in Callers :
        /\ pc[c] = "admitted"
        /\ requestCount = 1
        /\ lastRequestTime = now
        /\ now >= RateWindowMs
        /\ \E d \in Callers : pc[d] = "waiting"

----------------------------------------------------------------------------
(* Properties of selectTopArticles *)

\* C7: selectTopArticles returns at most 7 articles whatever the service
\* replies; a list of 7 or fewer articles is returned as it is, in one step,
\* without a generative call and with requestCount and lastRequestTime as
\* they were.
C7_SelectorAtMost7 ==
    /\ [](selPc = "done" =>
            /\ Len(selResult) <= 7
            /\ (Len(selArg) <= 7 => (selResult = selArg /\ selGenCalls = 0)))
    /\ [][(selPc = "idle" /\ selPc' # "idle" /\ Len(selArg') <= 7)
            => (selPc' = "done" /\ starts' = starts
                  /\ requestCount' = requestCount /\ lastRequestTime' = lastRequestTime)]_vars

\* C7 witness: a reply with 8 valid indices was cut to 7 articles
C7_Witness ==
    /\ selPc = "done"
    /\ selImpl = "real"
    /\ selGenCalls = 1
    /\ Len(selArg) > 7
    /\ Len(selResult) = 7

----------------------------------------------------------------------------
(* Properties of generateSummary *)

\* the fields of Summary
SummaryFields ==
    {"summary", "whatChangedToday", "keyPoints", "sentiment", "marketImpact", "confidence",
     "articlesAnalyzed", "ticker", "recovered"}

\* C8: every object generateSummary returns, on each of its paths, has all
\* the fields of Summary: summary, whatChangedToday, keyPoints, sentiment,
\* marketImpact, confidence, articlesAnalyzed, ticker and recovered.
C8_AllSummaryFields ==
    (genPc = "done" /\ genResult.status = "returned")
        => SummaryFields \subseteq DOMAIN genResult.obj

\* C9: generateSummary never raises: a failing generative call gives the
\* fallback built from the titles, and a malformed article list gives a
\* minimal error summary.
C9_NeverRaises ==
    genPc = "done" => genResult.status = "returned"

\* the reply is not parseable as JSON
ReplyUnparseable(text) == ~JsonOk(StripFences(text))

\* the fields the recovery looks for in the raw text
RecoveryFields == {"summary", "whatChangedToday", "sentiment", "marketImpact"}

\* the value the raw text gives a field, as JSON reads the literal
VerbatimValue(text, name) ==
    LET at == Min({i \in 1..(Len(text) - 1) : text[i] = Key(name) /\ text[i + 1].k = "str"})
    IN VStr(Unescape(text[at + 1].w))

OccursIn(text, name) ==
    \E i \in 1..(Len(text) - 1) : text[i] = Key(name) /\ text[i + 1].k = "str" /\ text[i + 1].closed

\* C10: when the reply is not parseable as JSON, the returned summary carries
\* verbatim every required field that occurs in the raw text, the neutral
\* default for the others (keyPoints the empty list, sentiment "neutral"),
\* recovered = true and confidence = "low".
C10_FieldRecovery ==
    (genPc = "done" /\ genGenCalls = 1 /\ genReply.present /\ ReplyUnparseable(genReply.text))
        => /\ genResult.status = "returned"
           /\ {"summary", "whatChangedToday", "keyPoints", "sentiment", "marketImpact",
               "confidence", "recovered"} \subseteq DOMAIN genResult.obj
           /\ \A name \in RecoveryFields :
                 OccursIn(genReply.text, name)
                    => genResult.obj[name] = VerbatimValue(genReply.text, name)
           /\ ~OccursIn(genReply.text, "sentiment") => genResult.obj["sentiment"] = VStr(<<"neutral">>)
           /\ (\A i \in 1..Len(genReply.text) : genReply.text[i] # Key("keyPoints"))
                 => genResult.obj["keyPoints"] = VArr(<<>>)
           /\ genResult.obj["recovered"] = VTrue
           /\ genResult.obj["confidence"] = VStr(<<"low">>)

----------------------------------------------------------------------------
(* Properties of collectNews *)

\* C3: every adapter call settles by fulfilling with a list, the empty list
\* when its source timed out, answered with a status other than 200, sent
\* content without the expected structure or made the processing of one
\* candidate raise; no adapter call rejects, and collectNews returns a list,
\* the empty one when all three sources fail.
C3_AdaptersDegradeToEmpty ==
    /\ \A a \in AdapterNames :
          /\ adapter[a].status # "rejected"
          /\ adapter[a].kind \in FaultKinds =>
                adapter[a].status = "fulfilled" /\ adapter[a].value = <<>>
    /\ colPc = "done" => colResult.status = "returned"
    /\ (colPc = "done" /\ ~colResult.fromCache
           /\ \A a \in AdapterNames : adapter[a].kind \in FaultKinds)
          => colResult.data = <<>>

C3_Witness ==
    /\ colPc = "done"
    /\ ~colResult.fromCache
    /\ adapter["TradingView"].kind = "exception"
    /\ adapter["Finviz"].kind = "timeout"
    /\ adapter["Polygon"].kind = "status"
    /\ colResult.status = "returned"
    /\ colResult.data = <<>>

ArticlesOf(list) == {list[i] : i \in 1..Len(list)}

\* C4: the step of collectNews that starts one adapter starts all three; the
\* merge happens only when all three adapter calls have settled; the merged
\* list holds every article of every fulfilled adapter call, whatever the
\* other calls did; and the settling of one adapter call changes no other.
C4_DispatchAllJoinAll ==
    /\ [][(colPc = "idle" /\ colPc' = "awaiting")
             => \A a \in AdapterNames : adapter'[a].status \in {"pending", "fulfilled"}]_vars
    /\ [][(colPc = "awaiting" /\ colPc' = "done")
             => /\ \A a \in AdapterNames : adapter[a].status \in {"fulfilled", "rejected"}
                /\ \A a \in AdapterNames :
                      adapter[a].status = "fulfilled"
                         => ArticlesOf(adapter[a].value) \subseteq ArticlesOf(allNews')]_vars
    /\ [][\A a \in AdapterNames :
             (adapter[a].status = "pending" /\ adapter'[a].status # "pending")
                => \A b \in AdapterNames \ {a} : adapter'[b] = adapter[b]]_vars
    /\ [](colPc = "awaiting" => \A a \in AdapterNames : adapter[a].status # "notStarted")

C4_Witness ==
    /\ colPc = "done"
    /\ ~colResult.fromCache
    /\ adapter["TradingView"].kind = "timeout"
    /\ adapter["Polygon"].kind = "exception"
    /\ adapter["Finviz"].value # <<>>
    /\ allNews = adapter["Finviz"].value

\* the fingerprint of a title: lower case, every character that is not a
\* letter or a digit removed, the first 50 characters of what is left
TitleFingerprint(title) ==
    LET kept == SelectSeq(toLowerCase(title), IsAlnum)
    IN SubSeq(kept, 1, IF Len(kept) < 50 THEN Len(kept) ELSE 50)

NoEqualFingerprints(list) ==
    LET fingerprints == [i \in 1..Len(list) |-> TitleFingerprint(list[i].title)]
    IN \A i, j \in 1..Len(list) : i # j => fingerprints[i] # fingerprints[j]

\* the list is what fetch, filter and dedup make of the merged list
PipelineOf(list, merged, ticker) ==
    /\ \A i \in 1..Len(list) :
          list[i] \in ArticlesOf(merged) /\ CollectRelevant(list[i], ticker)
    /\ \A i \in 1..Len(merged) :
          CollectRelevant(merged[i], ticker)
             => \E j \in 1..Len(list) :
                   TitleFingerprint(list[j].title) = TitleFingerprint(merged[i].title)
    /\ NoEqualFingerprints(list)

\* C5: a call for a ticker whose cache entry was captured less than 5 minutes
\* ago returns the list of the entry as it is, starts no adapter and leaves
\* the cache alone; any other call dispatches the adapters, and its return
\* puts the filtered, deduplicated result and the current time in the entry;
\* no returned list was captured 5 minutes or more before its return.
C5_CacheServesFreshOnly ==
    /\ [][\A t \in Tickers :
             (colPc = "idle" /\ colPc' # "idle" /\ colTicker' = t)
                => IF cache[t].present /\ now - cache[t].timestamp < 300000
                   THEN /\ colPc' = "done"
                        /\ colResult'.data = cache[t].data
                        /\ colResult'.fromCache
                        /\ cache' = cache
                        /\ \A a \in AdapterNames : adapter'[a].status = "notStarted"
                   ELSE /\ colPc' = "awaiting"
                        /\ \A a \in AdapterNames : adapter'[a].status # "notStarted"]_vars
    /\ [][(colPc = "awaiting" /\ colPc' = "done")
             => /\ PipelineOf(colResult'.data, allNews', colTicker)
                /\ cache'[colTicker] = Entry(colResult'.data, now)
                /\ ~colResult'.fromCache]_vars
    /\ [](colPc = "done" => colResult.returnedAt - colResult.capturedAt < 300000)

C5_Witness ==
    /\ colPc = "done"
    /\ colResult.fromCache
    /\ colResult.data # <<>>
    /\ colResult.returnedAt > colResult.capturedAt
    /\ colResult.data = cache[colTicker].data

\* C6: no list returned by collectNews, computed or cached, and no list held
\* in the cache, has two articles with the same fingerprint.
C6_NoEqualFingerprints ==
    /\ colPc = "done" => NoEqualFingerprints(colResult.data)
    /\ \A t \in Tickers : NoEqualFingerprints(cache[t].data)

C6_Witness ==
    /\ colPc = "done"
    /\ ~colResult.fromCache
    /\ Len(colResult.data) > 1
    /\ \E i, j \in 1..Len(allNews) :
          /\ allNews[i].title # allNews[j].title
          /\ Len(allNews[i].title) > 50
          /\ TitleFingerprint(allNews[i].title) = TitleFingerprint(allNews[j].title)
    /\ \E i, j \in 1..Len(allNews) :
          /\ allNews[i].source # allNews[j].source
          /\ TitleFingerprint(allNews[i].title) = TitleFingerprint(allNews[j].title)

----------------------------------------------------------------------------
(* Further properties of generateSummary *)

\* C11: a generateSummary call with an absent or empty article list returns at
\* once the "no recent news" summary of its ticker, the same for every such
\* call, with sentiment "neutral" and keyPoints []; it makes no generative
\* call and leaves requestCount and lastRequestTime as they were.
C11_EmptyInputNoCall ==
    /\ [][(genPc = "idle" /\ genPc' # "idle"
              /\ (genArticles'.kind = "absent"
                     \/ (genArticles'.kind = "list" /\ genArticles'.items = <<>>)))
             => /\ genPc' = "done"
                /\ genResult'.status = "returned"
                /\ genResult'.obj["sentiment"] = VStr(<<"neutral">>)
                /\ genResult'.obj["keyPoints"] = VArr(<<>>)
                /\ genResult'.obj["summary"] =
                      VStr(<<"No recent news available for", genTicker',
                             ". Please check back later for the latest updates.">>)
                /\ genResult'.obj["whatChangedToday"] = VStr(<<"No recent news to analyze changes.">>)
                /\ DOMAIN genResult'.obj =
                      {"summary", "keyPoints", "sentiment", "articlesAnalyzed", "whatChangedToday"}
                /\ genGenCalls' = 0
                /\ requestCount' = requestCount
                /\ lastRequestTime' = lastRequestTime
                /\ starts' = starts]_vars

C11_Witness ==
    /\ genPc = "done"
    /\ genArticles = ArgList(<<>>)
    /\ genTicker = "TSLA"
    /\ requestCount = maxRequestsPerMinute
    /\ genResult.obj["keyPoints"] = VArr(<<>>)
    /\ genGenCalls = 0

----------------------------------------------------------------------------
(* Further properties of selectTopArticles *)

\* the credibility tier of a source: Polygon, then Finviz, then TradingView,
\* then any other
TierOf(article) ==
    CASE article.source = "Polygon" -> 3
      [] article.source = "Finviz" -> 2
      [] article.source = "TradingView" -> 1
      [] OTHER -> 0

\* the list is the first k of the candidates put in tier order
FirstByTier(list, candidates, k) ==
    /\ Len(list) = (IF Len(candidates) < k THEN Len(candidates) ELSE k)
    /\ \A i, j \in 1..Len(list) : i < j => TierOf(list[i]) >= TierOf(list[j])
    /\ \A i, j \in 1..Len(list) : i # j => list[i] # list[j]
    /\ \A i \in 1..Len(list) : \E n \in 1..Len(candidates) : candidates[n] = list[i]
    /\ \A n \in 1..Len(candidates) :
          (\A i \in 1..Len(list) : list[i] # candidates[n])
             => \A i \in 1..Len(list) : TierOf(list[i]) >= TierOf(candidates[n])

\* C12: when selectTopArticles has more than 7 candidates and its generative
\* call raises, it returns the first 6 of the candidates in tier order; of 12
\* candidates with 3 from Polygon, the 3 Polygon articles come first.
C12_FailureFallbackByTier ==
    (selPc = "done" /\ selImpl = "real" /\ Len(selArg) > 7 /\ selReply.kind = "error")
       => /\ FirstByTier(selResult, selArg, 6)
          /\ (Len(selArg) = 12
                 /\ Cardinality({n \in 1..12 : selArg[n].source = "Polygon"}) = 3)
                => /\ Len(selResult) = 6
                   /\ \A i \in 1..3 : selResult[i].source = "Polygon"
                   /\ \A i \in 4..6 : selResult[i].source # "Polygon"

C12_Witness ==
    /\ selPc = "done"
    /\ selImpl = "real"
    /\ selReply.kind = "error"
    /\ Len(selArg) = 12
    /\ Cardinality({n \in 1..12 : selArg[n].source = "Polygon"}) = 3
    /\ selArg[1].source # "Polygon"
    /\ \A i \in 1..3 : selResult[i].source = "Polygon"
    /\ Len(selResult) = 6

\* the reply text gives no usable selection for n candidates: its bracketed
\* array is not valid JSON, or the numbers that are read from it (from the
\* array when there is one, else from the whole text) are all out of 1..n,
\* which is so when there is no number at all
NoUsableSelection(text, n) ==
    IF ArrayMatchStart(text, 1) > 0
    THEN \/ ~JsonArrayOk(ArrayMatchBody(text))
         \/ \A i \in 1..Len(NumbersOf(ArrayMatchBody(text))) :
               NumbersOf(ArrayMatchBody(text))[i] \notin 1..n
    ELSE \A i \in 1..Len(NumbersOf(text)) : NumbersOf(text)[i] \notin 1..n

\* C19: when selectTopArticles has more than 7 candidates and the reply of
\* its generative call gives no usable selection, it returns the first 6 of
\* the candidates in tier order, as it does when the call raises.
C19_UnusableReplyFallbackByTier ==
    (selPc = "done" /\ selImpl = "real" /\ Len(selArg) > 7 /\ selReply.kind = "text"
        /\ NoUsableSelection(selReply.text, Len(selArg)))
       => FirstByTier(selResult, selArg, 6)

----------------------------------------------------------------------------
(* Properties of removeDuplicates *)

\* the places of the list whose title has the fingerprint f
PlacesOf(list, f) == {i \in 1..Len(list) : TitleFingerprint(list[i].title) = f}

\* C13: for every fingerprint that occurs in the input of removeDuplicates,
\* an empty one included, the output holds exactly one article with it, the
\* first of the input that has it; titles that differ only in letter case
\* or punctuation have the same fingerprint.
C13_FirstOfEachFingerprint ==
    rdPc = "done"
       => /\ \A n \in 1..Len(rdArticles) :
                LET f == TitleFingerprint(rdArticles[n].title)
                    first == CHOOSE i \in PlacesOf(rdArticles, f) :
                                 \A j \in PlacesOf(rdArticles, f) : i <= j
                IN /\ Cardinality(PlacesOf(rdUnique, f)) = 1
                   /\ \E k \in PlacesOf(rdUnique, f) : rdUnique[k] = rdArticles[first]
          /\ \A k \in 1..Len(rdUnique) : \E n \in 1..Len(rdArticles) : rdArticles[n] = rdUnique[k]

\* C14: in either storage, the stored list of every ticker has at most 7
\* entries, and they are the most recently stored summaries of the ticker,
\* newest first
C14_SevenMostRecentNewestFirst ==
    \A t \in Tickers :
        /\ Len(summaries[t]) <= MaxSummaries
        /\ summaries[t] = stLog[t]

----------------------------------------------------------------------------
(* Further properties of generateSummary *)

\* C15: in every summary generateSummary returns, whatever the path and the
\* reply, keyPoints is present and is a list.
C15_KeyPointsIsList ==
    (genPc = "done" /\ genResult.status = "returned")
        => /\ "keyPoints" \in DOMAIN genResult.obj
           /\ genResult.obj["keyPoints"].t = "array"

\* C16: in every summary generateSummary returns, whatever the size of the
\* input and the path, the path of a failed generative call included,
\* articlesAnalyzed is at most 25.
C16_AnalyzedAtMost25 ==
    (genPc = "done" /\ genResult.status = "returned")
        => /\ "articlesAnalyzed" \in DOMAIN genResult.obj
           /\ genResult.obj["articlesAnalyzed"].n <= MaxAnalyzed

----------------------------------------------------------------------------
(* Further properties of the rate limiter *)

\* the calls admitted at or after instant t: those that have reached the
\* service, and those that have left rateLimit and are about to
AdmittedSince(t) ==
    Cardinality({i \in 1..Len(starts) : starts[i] >= t})
        + Cardinality({c \in Callers : pc[c] = "admitted"})

\* C17: while the window that began at lastRequestTime is running,
\* requestCount is the number of generative calls admitted since
\* lastRequestTime: every call that reaches the service is counted exactly
\* once, callers that resume together after a wait included.
C17_CountEqualsAdmitted ==
    (now - lastRequestTime < RateWindowMs)
        => requestCount = AdmittedSince(lastRequestTime)

----------------------------------------------------------------------------
(* Further properties of the collector *)

NewestFirst(list) ==
    \A i \in 1..(Len(list) - 1) : list[i].publishedAt >= list[i + 1].publishedAt

\* C18: every list collectNews returns, computed or served from the cache,
\* is ordered by publishedAt from newest to oldest, whatever calls of
\* collectNews and selectTopArticles came before on the lists it returned.
C18_ReturnedNewestFirst ==
    (colPc = "done" /\ colResult.status = "returned") => NewestFirst(colResult.data)

\* the place of a strategy in the order
StageIndex(stage) == CHOOSE k \in 1..Len(StageOrder) : StageOrder[k] = stage

\* the strategies that have added at least one article
Succeeded == {stage \in Stages : scYield[stage] # <<>>}

\* C20: scrapeTradingView tries its strategies in the order of StageOrder, and
\* once one of them has added an article no later one examines the document
\* or adds anything: the list returned is what the first successful strategy
\* added.
C20_StopsAtFirstSuccess ==
    /\ \A stage \in Stages :
          scPc = stage => \A ran \in scRan : StageIndex(ran) < StageIndex(stage)
    /\ \A first \in Succeeded :
          (\A other \in Succeeded : StageIndex(first) <= StageIndex(other))
             => /\ \A ran \in scRan : StageIndex(ran) <= StageIndex(first)
                /\ Succeeded = {first}
                /\ (scPc = "done" /\ scResult.kind = "page") => scResult.value = scYield[first]

----------------------------------------------------------------------------
(* Time normalization *)

\* C21: the conversion of a time text to a timestamp never raises: whatever
\* the time cell of a row holds, a text with "minutes ago" or "hours ago" and
\* no number included, createNewsItem returns and the candidate is produced,
\* so the TradingView adapter never ends in its catch block with the
\* candidates of the page lost.
C21_TimeNormalizationTotal ==
    adapter["TradingView"].kind # "exception"

----------------------------------------------------------------------------
(* Parsing of the reply *)

\* the span of the text from its first "{" to its last "}"
JsonSpan(text) ==
    LET opens == {i \in 1..Len(text) : text[i] = OB}
        closes == {i \in 1..Len(text) : text[i] = CB}
    IN IF opens = {} \/ closes = {} THEN <<>>
       ELSE SubSeq(text, Min(opens), CHOOSE j \in closes : \A i \in closes : i <= j)

\* the text holds one well-formed JSON object, with nothing around it but
\* code fences and prose
HoldsOneObject(text) ==
    /\ JsonSpan(text) # <<>>
    /\ JsonOk(JsonSpan(text))
    /\ \A i \in 1..Len(text) :
          \/ text[i].k \in {"fence_open", "fence_close", "prose"}
          \/ ((\E a \in 1..i : text[a] = OB) /\ (\E b \in i..Len(text) : text[b] = CB))

\* C22: when the reply holds one well-formed JSON object, wrapped in code
\* fences or preceded and followed by other text or neither, generateSummary
\* returns the fields of the object from the first "{" to the last "}" merged
\* with the request metadata, and does not enter the recovery or the fallback
\* path: the result has no recovery or fallback flag.
C22_ObjectSpanParsed ==
    (genPc = "done" /\ genGenCalls = 1 /\ genReply.present /\ HoldsOneObject(genReply.text))
        => /\ genResult.status = "returned"
           /\ genResult.obj = ParsedResult(genTicker, genArticles, genHistory, JsonSpan(genReply.text))
           /\ DOMAIN genResult.obj \cap {"_recovered", "recovered", "fallback"} = {}

----------------------------------------------------------------------------
(* Frame of selectTopArticles *)

\* C24: selectTopArticles leaves the list it was given as it was, the same
\* elements in the same order, on every path, the fallback that orders the
\* candidates by the credibility of their source included.
C24_ArgumentUnchanged ==
    selPc # "idle" => selList = selArg

----------------------------------------------------------------------------
(* Properties of the serverless handler *)

\* C23: when the full ticker list is refreshed, by the processing at start
\* or by a refresh-all request, the tickers are processed one at a time: at
\* no time are two runs of the same batch in progress.
C23_BatchOneAtATime ==
    \A r1, r2 \in Runs :
        (r1 # r2 /\ run[r1].pc # "free" /\ run[r2].pc # "free" /\ run[r1].batch # 0)
            => run[r1].batch # run[r2].batch

\* C26: storage initialization with the processing of the default tickers
\* runs at most once in a process.
C26_InitializedOnce == initRuns <= 1

\* no request is being served and no background run is under way
Quiescent ==
    /\ \A q \in Requests : req[q].pc \in {"idle", "responded"}
    /\ \A r \in Runs : run[r].pc = "free"

\* C25: for a ticker for which an add or refresh request has stored a
\* preliminary summary and started the AI processing, once every started run
\* has ended the latest stored summary is not processing and its status is
\* "complete" or "error".
C25_ProcessingEnds ==
    \A t \in aiStarted :
        (Quiescent /\ memSummaries[t] # <<>>)
            => /\ ~Head(memSummaries[t]).isProcessing
               /\ Head(memSummaries[t]).processingStatus \in {"complete", "error"}

\* C27: the status update at the start of the AI processing changes only the
\* latest stored summary of the ticker and leaves the number of stored
\* summaries unchanged.
C27_StatusUpdateInPlace ==
    [][\A r \in Runs :
          (run[r].pc = "started" /\ run'[r].pc # "started")
              => /\ Len(memSummaries'[run[r].ticker]) = Len(memSummaries[run[r].ticker])
                 /\ \A i \in 2..Len(memSummaries[run[r].ticker]) :
                       memSummaries'[run[r].ticker][i] = memSummaries[run[r].ticker][i]]_vars

\* C28: every ticker that has stored summaries is in the ticker list.
C28_SummariesOfListedTickers ==
    \A t \in Tickers : memSummaries[t] # <<>> => t \in ElementsOf(memTickers)

\* C29: a DELETE request that has been answered either answered success,
\* with the ticker and its summaries removed, or answered an error and
\* removed nothing.
C29_DeleteAllOrNothing ==
    \A q \in Requests :
        (req[q].kind = "delete" /\ req[q].pc = "responded")
            => \/ /\ req[q].code = 200
                  /\ req[q].ticker \notin ElementsOf(memTickers)
                  /\ memSummaries[req[q].ticker] = <<>>
               \/ /\ req[q].code # 200
                  /\ ~req[q].removed

----------------------------------------------------------------------------
(* Properties of the ticker file *)

\* C30: after concurrent calls of addTicker and removeTicker have returned,
\* every ticker that was added and never removed is in the ticker list
\* exactly once, as after the calls in some sequential order.
C30_TickerCallsSerializable ==
    (\A c \in Callers : tkPc[c] = "idle")
        => \A t \in tkAdded \ tkRemoved :
              Cardinality({i \in 1..Len(tickersFile) : tickersFile[i] = t}) = 1

====
